---- MODULE Spec2Model ----
(***************************************************************************)
(* A model of the client-side state of ProjectView (src/unnamed/part_002)  *)
(* and of the zoom navigation buttons of LayerList.tsx: the reconciler of  *)
(* the event stream (the message-processing effect), the error list with   *)
(* its auto-dismiss timers, the zoom history, the upload queue, the         *)
(* connection of the event stream (conversation, tab visibility, reconnect *)
(* policy) and the phases shown for the database connections.              *)
(*                                                                         *)
(* React semantics the model relies on:                                    *)
(*  - the state updates a handler or an effect queues are applied in one   *)
(*    render before anything else runs, so one run of a handler is one     *)
(*    action;                                                              *)
(*  - an effect runs again after a render in which one of its dependencies *)
(*    changed (effectDue), and pending effects are flushed before the next *)
(*    event is handled;                                                    *)
(*  - useWebSocket commits every socket message as a new lastMessage       *)
(*    object before the next message is taken.                             *)
(***************************************************************************)
EXTENDS Integers, Sequences, FiniteSets, TLC

VARIABLES
    errors,                   \* ErrorEntry[]: useState at part_002:147
    errorTimers,              \* pending auto-dismiss setTimeout callbacks
    activeActions,            \* EphemeralAction[] (by action_id): part_002:148
    zoomHistory,              \* Array<{bounds}>: part_002:149
    zoomHistoryIndex,         \* part_002:150, 0-based, -1 when empty
    mapRef,                   \* mapRef.current # null: part_002:151
    viewBounds,               \* what mapRef.current.getBounds() returns
    processedBoundsActionIds, \* part_002:152
    lastMessage,              \* useWebSocket's lastMessage: part_002:257
    effectDue,                \* the message effect has a changed dependency
    unhandled,                \* lastMessage has not been through the effect yet
    crashed,                  \* an exception escaped the message effect
    out,                      \* commands issued by the last handler run
    obs,                      \* observer of the a1 example of the spec
    versionId,                \* part_002:95, 0 while the project is loading
    uploadingFiles,           \* UploadingFile[]: part_002:195
    transfers,                \* ids of the uploads whose request is in flight
    xhrLoaded,                \* event.loaded of the last progress event of each
                              \* request in flight, in chunks
    uploadTimers,             \* pending setTimeout callbacks that prune the queue
    docVisible,               \* document.visibilityState === 'visible'
    isTabVisible,             \* useState at part_002:224
    hiddenTimeoutExpired,     \* useState at part_002:225
    hiddenTimerRef,           \* hiddenTimerRef.current: a timer id, or -1 for null
    hiddenTimers,             \* pending window timers set at part_002:239
    hiddenFor,                \* ms the document has been hidden without a break
    conversationId,           \* usePersistedState at part_002:81, -1 for null
    socket,                   \* what useWebSocket is doing with the connection
    reconnectCount,           \* useWebSocket's count of reconnect attempts
    reconnectDelay,           \* the delay of the last scheduled reconnect, in ms
    projectSources,           \* data of the sources query: part_002:62
    sourcesRefetchInterval,   \* part_002:44, 0 for false
    shownPhases,              \* the phase LayerList renders for each connection
    shownBars,                \* the icon and the progress bar it renders for each
    jwt,                      \* useState at part_002:199
    jwtLookup,                \* the getJwt() promise of the effect at part_002:211
    mounted,                  \* the flag the effect's cleanup clears: part_002:210
    hiddenLayerIDs,           \* string[]: useState at part_002:485
    currentPage,              \* MapsList: from useProjects(), part_001:20
    totalPages,               \* MapsList: from useProjects(), part_001:18
    visiblePages              \* the page links MapsList renders

errorVars == <<errors, errorTimers>>

zoomVars == <<zoomHistory, zoomHistoryIndex, viewBounds>>

streamVars == <<lastMessage, effectDue, unhandled, crashed>>

uploadVars == <<versionId, uploadingFiles, transfers, xhrLoaded, uploadTimers>>

visVars == <<docVisible, isTabVisible, hiddenTimeoutExpired, hiddenTimerRef,
             hiddenTimers, hiddenFor>>

socketVars == <<conversationId, socket, reconnectCount, reconnectDelay>>

sourceVars == <<projectSources, sourcesRefetchInterval, shownPhases, shownBars>>

tokenVars == <<jwt, jwtLookup, mounted>>

\* the state the handlers of the upload, stream and source groups leave alone
pageVars == <<currentPage, totalPages, visiblePages>>

otherVars == <<tokenVars, hiddenLayerIDs, pageVars>>

vars == <<errorVars, zoomVars, streamVars, uploadVars, visVars, socketVars,
          sourceVars, otherVars, activeActions, mapRef, processedBoundsActionIds,
          out, obs>>

(***************************************************************************)
(* Bounds of the model.                                                    *)
(***************************************************************************)
MaxActive == 2

TickMs == 10000

MaxTimers == 3

MaxQueue == 2

\* event.total of an upload, in chunks
Chunks == 2

\* connections of a project
MaxSources == 1

\* the clock of a hidden document stops here
MaxHiddenMs == 620000

\* the largest number of pages of the maps list
MaxPages == 15

\* the number of layers whose eye button can be clicked
MaxLayers == 5

(***************************************************************************)
(* Program constants.                                                      *)
(***************************************************************************)
ErrorDismissMs == 30000

SuccessHoldMs == 2000

ErrorHoldMs == 5000

MaxFileSize == 500 * 1024 * 1024

\* part_002:223
WsRemainOpenForMs == 10 * 60 * 1000

\* part_002:256
backoffMs == <<30, 1000, 5000, 15000, 50000>>

\* part_002:264
ReconnectAttempts == 2880

\* part_002:78
SourcesPollMs == 500

(***************************************************************************)
(* Values.  Bounds are arrays of JSON tokens; no arithmetic is done on     *)
(* them, so a token is a string.                                           *)
(***************************************************************************)
\* two actions send every kind of event; a third sends one zoom event only
ActionIds == {1, 2}

ThirdAction == 3

NumberTokens == {"-180", "-90", "0", "5", "10", "20", "90", "180"}

NoBounds == <<>>

B1 == <<"0", "0", "10", "10">>

B2 == <<"5", "5", "20", "20">>

ShortBounds == <<"0", "0", "10">>

NonFiniteBounds == <<"null", "null", "null", "null">>

InitialView == <<"-180", "-90", "180", "90">>

BoundsInputs == {NoBounds, B1, B2, ShortBounds, NonFiniteBounds}

NoError == "none"

GenericError == "Failed to process update from server."

ServerErrors == {"E1"}

NoMessage == [kind |-> "none"]

NoVersion == 0

\* conversationId === null, and hiddenTimerRef.current === null
NoConversation == -1

NoTimer == -1

\* persisted conversation ids; 0 is the falsy one
ConversationIds == {0, 1}

\* a count the server left out (null or undefined)
NoCount == -1

\* refetchInterval: false
NoPolling == 0

\* PostgresConnectionDetails as the sources endpoint returns them;
\* last_error_text is null, the empty string or a message
Connections ==
    [last_error_text : {"null", "", "E"}, is_documented : BOOLEAN,
     processed_tables_count : {NoCount, 0, 1, 2, 3},
     table_count : {NoCount, 0, 1, 2, 3}]

NoOut == [fits |-> <<>>, invalidations |-> 0, toasts |-> 0, notices |-> <<>>]

\* what a handler run shows: the texts of its toasts, in order
Toasts(texts) == [NoOut EXCEPT !.toasts = Len(texts), !.notices = texts]

\* the 'ephemeral' field of a message is its JSON token, or "absent"
Eph(a, s, b, e, u) ==
    [kind |-> "ephemeral", ephemeral |-> "true", action_id |-> a, status |-> s,
     bounds |-> b, error_message |-> e, updates |-> u]

\* a payload JSON.parse rejects
Malformed == [kind |-> "malformed", ephemeral |-> "absent", action_id |-> 0,
              status |-> "none", bounds |-> NoBounds, error_message |-> NoError,
              updates |-> "absent"]

\* a chat message (SanitizedMessage): no 'ephemeral' field
Chat == [kind |-> "chat", ephemeral |-> "absent", action_id |-> 0,
         status |-> "none", bounds |-> NoBounds, error_message |-> NoError,
         updates |-> "absent"]

\* a chat message that carries ephemeral: false
ChatFalse == [Chat EXCEPT !.ephemeral = "false"]

\* an object with the fields of an active event but ephemeral: 1
NumericMarker ==
    [kind |-> "other", ephemeral |-> "1", action_id |-> 1, status |-> "active",
     bounds |-> NoBounds, error_message |-> NoError, updates |-> "absent"]

ActiveEvents ==
    {Eph(a, "active", b, NoError, "absent") : a \in ActionIds, b \in BoundsInputs}
    \cup {Eph(ThirdAction, "active", B2, NoError, "absent")}

CompletedEvents ==
    {Eph(a, "completed", NoBounds, NoError, u) : a \in ActionIds, u \in {"absent", "plain", "style"}}
    \cup {Eph(1, "completed", B1, NoError, "plain")}

ErrorEvents ==
    {Eph(1, s, b, e, "absent") : s \in {"active", "completed"}, b \in {NoBounds, B1}, e \in ServerErrors}

Messages ==
    {Malformed, Chat, ChatFalse, NumericMarker} \cup ActiveEvents \cup CompletedEvents \cup ErrorEvents

\* the a1 example of the spec
ExampleActive == Eph(1, "active", B1, NoError, "absent")

ExampleCompleted == Eph(1, "completed", NoBounds, NoError, "style")

(***************************************************************************)
(* Helpers.                                                                *)
(***************************************************************************)
Min(a, b) == IF a <= b THEN a ELSE b

ErrorIds == {errors[i].id : i \in 1..Len(errors)}

TimerIds == {t.id : t \in errorTimers}

\* Date.now() + random suffix (part_002:161): an id no live entry or timer has
FreshErrorId ==
    CHOOSE n \in 0..Cardinality(ErrorIds \cup TimerIds) :
        /\ n \notin ErrorIds \cup TimerIds
        /\ \A k \in 0..(n - 1) : k \in ErrorIds \cup TimerIds

(***************************************************************************)
(* addError (part_002:155-178).  The updater bails out when an entry with  *)
(* the same message exists; otherwise it appends a new entry, toasts       *)
(* unless shouldOverrideMessages, and schedules the auto-dismiss.          *)
(***************************************************************************)
HasMessage(prevErrors, message) ==
    \E i \in 1..Len(prevErrors) : prevErrors[i].message = message

\* faulty variant: the updater does not bail out on a live message
AddErrorListNoDedupe(prevErrors, message, shouldOverrideMessages, id) ==
    Append(prevErrors,
           [id |-> id, message |-> message, age |-> 0,
            shouldOverrideMessages |-> shouldOverrideMessages])

AddErrorList(prevErrors, message, shouldOverrideMessages, id) ==
    IF HasMessage(prevErrors, message) THEN prevErrors
    ELSE Append(prevErrors,
                [id |-> id, message |-> message, age |-> 0,
                 shouldOverrideMessages |-> shouldOverrideMessages])

AddErrorTimers(prevErrors, timers, message, id) ==
    IF HasMessage(prevErrors, message) THEN timers
    ELSE timers \cup {[id |-> id, remaining |-> ErrorDismissMs]}

AddErrorToasts(prevErrors, message, shouldOverrideMessages) ==
    IF HasMessage(prevErrors, message) \/ shouldOverrideMessages THEN 0 ELSE 1

\* faulty variant: the oldest entry goes, whatever its id
RemoveErrorOldest(current, id) ==
    IF current = <<>> THEN current ELSE Tail(current)

\* current.filter((e) => e.id !== id): part_002:173 and part_002:182
RemoveError(current, id) ==
    LET Keep(e) == e.id # id IN SelectSeq(current, Keep)

(***************************************************************************)
(* The message effect (part_002:271-345), one run on message m.            *)
(***************************************************************************)
\* faulty variant: any truthy 'ephemeral' field marks an ephemeral action
IsEphemeralTruthy(m) == m.ephemeral \in {"true", "1"}

\* part_002:277: 'ephemeral' in update && update.ephemeral === true
IsEphemeral(m) == m.ephemeral = "true"

\* faulty variant: the error_message branch is never taken
HasErrorMessageNever(m) == FALSE

\* part_002:281
HasErrorMessage(m) == m.error_message # NoError

\* part_002:288: action.bounds && action.bounds.length === 4
HasZoomBounds(m) == m.bounds # NoBounds /\ Len(m.bounds) = 4

\* part_002:288: the whole condition of the zoom branch
ZoomCondition(m) == HasZoomBounds(m) /\ mapRef /\ m.status = "active"

\* faulty variant: the guard on processed ids is missing
AlreadyProcessedNever(m) == FALSE

\* part_002:290
AlreadyProcessed(m) == m.action_id \in processedBoundsActionIds

\* faulty variant: the history is not cut at the index before appending
PushZoomNoSlice(prev, index, currentBoundsArray, target) ==
    prev \o <<currentBoundsArray, target>>

\* part_002:304-307: prev.slice(0, zoomHistoryIndex + 1) and the two entries
PushZoom(prev, index, currentBoundsArray, target) ==
    SubSeq(prev, 1, index + 1) \o <<currentBoundsArray, target>>

\* faulty variant: the index moves by one entry only
PushIndexByOne(prev) == prev + 1

\* part_002:310
PushIndex(prev) == prev + 2

\* part_002:325
AddActive(prev, m) == Append(prev, m.action_id)

\* faulty variant: a completed event removes nothing
RemoveActiveNothing(prev, m) == prev

\* part_002:328
RemoveActive(prev, m) ==
    LET Keep(a) == a # m.action_id IN SelectSeq(prev, Keep)

\* fitBounds is the renderer's: on tokens that are not numbers it either
\* throws (Invalid LngLat) or moves the view, depending on the tokens
FitOutcomes(m) ==
    IF \A i \in 1..Len(m.bounds) : m.bounds[i] \in NumberTokens
    THEN {FALSE} ELSE {FALSE, TRUE}

Unchanged ==
    [active |-> activeActions, hist |-> zoomHistory, index |-> zoomHistoryIndex,
     processed |-> processedBoundsActionIds, view |-> viewBounds, fits |-> <<>>,
     invalidations |-> 0, thrown |-> FALSE, error |-> NoError, override |-> FALSE]

\* part_002:287-321, entered when ZoomCondition holds and the id is new
ZoomBranch(m, fitThrows) ==
    LET pushed == [Unchanged EXCEPT
            !.processed = processedBoundsActionIds \cup {m.action_id},
            !.hist = PushZoom(zoomHistory, zoomHistoryIndex, viewBounds, m.bounds),
            !.index = PushIndex(zoomHistoryIndex)]
    IN  IF fitThrows
        THEN [pushed EXCEPT !.thrown = TRUE]
        ELSE [pushed EXCEPT !.view = m.bounds, !.fits = <<m.bounds>>]

\* faulty variant: a completed event invalidates whatever its updates are
StatusBranchAlwaysInvalidates(m, r) ==
    IF m.status = "active"
    THEN [r EXCEPT !.active = AddActive(r.active, m)]
    ELSE IF m.status = "completed"
    THEN [r EXCEPT !.active = RemoveActive(r.active, m), !.invalidations = 1]
    ELSE r

\* part_002:323-333, applied to the record r the zoom branch left
StatusBranch(m, r) ==
    IF m.status = "active"
    THEN [r EXCEPT !.active = AddActive(r.active, m)]
    ELSE IF m.status = "completed"
    THEN LET removed == [r EXCEPT !.active = RemoveActive(r.active, m)]
         IN  IF m.updates = "absent"
             THEN [removed EXCEPT !.thrown = TRUE]      \* action.updates.style_json
             ELSE IF m.updates = "style"
             THEN [removed EXCEPT !.invalidations = 1]
             ELSE removed
    ELSE r

\* part_002:273-339: the body of the try block
TryBody(m, fitThrows) ==
    IF m.kind = "malformed" THEN [Unchanged EXCEPT !.thrown = TRUE]   \* JSON.parse
    ELSE IF ~IsEphemeral(m) THEN [Unchanged EXCEPT !.invalidations = 1]
    ELSE IF HasErrorMessage(m)
    THEN [Unchanged EXCEPT !.error = m.error_message, !.override = TRUE]
    ELSE IF ZoomCondition(m)
    THEN IF AlreadyProcessed(m) THEN Unchanged
         ELSE LET z == ZoomBranch(m, fitThrows)
              IN  IF z.thrown THEN z ELSE StatusBranch(m, z)
    ELSE StatusBranch(m, Unchanged)

\* part_002:340-343: the catch block
Reconcile(m, fitThrows) ==
    LET r == TryBody(m, fitThrows)
    IN  IF r.thrown THEN [r EXCEPT !.error = GenericError, !.override = FALSE] ELSE r

\* faulty variant: no try/catch around the body
EscapesEffectUncaught(thrown) == thrown

\* part_002:273 and 340: the try block spans the whole body, nothing escapes
EscapesEffect(thrown) == FALSE

\* faulty variant: lastMessage is missing from the dependency list
DepsChangedIndexOnly(newMessage, oldIndex, newIndex) == oldIndex # newIndex

\* part_002:345: the dependency list of the effect.  Every message is a new
\* object, addError is stable, and invalidateMapData changes with versionId
DepsChanged(newMessage, oldIndex, newIndex) ==
    newMessage \/ oldIndex # newIndex

(***************************************************************************)
(* The connection of the event stream (part_002:201-209, 254-268).         *)
(***************************************************************************)
\* part_002:202: wsUrl is null when !conversationId (null and 0 are falsy)
\* useState<string | undefined>(undefined): part_002:199
NoJwt == "undefined"

\* what getJwt() can resolve with: nothing, an empty string, a token
JwtResults == {NoJwt, "", "jwt1", "jwt2"}

\* JavaScript truthiness of a string | undefined
IsToken(token) == token # NoJwt /\ token # ""

HasUrl(conversation) == conversation # NoConversation /\ conversation # 0

\* the url of no connection: wsUrl is null (part_002:202-203)
NoUrl == [conversation |-> NoConversation, token |-> NoJwt]

\* faulty variant: the token is never appended
WsUrlWithoutToken(conversation, token) ==
    IF ~HasUrl(conversation) THEN NoUrl
    ELSE [conversation |-> conversation, token |-> NoJwt]

\* wsUrl (part_002:201-209): null without a conversation, the bare updates
\* url while jwt is falsy, and the url with ?token=${jwt} otherwise
WsUrl(conversation, token) ==
    IF ~HasUrl(conversation) THEN NoUrl
    ELSE IF ~IsToken(token) THEN [conversation |-> conversation, token |-> NoJwt]
    ELSE [conversation |-> conversation, token |-> token]

\* part_002:255
ShouldConnect(conversation, visible, expired) ==
    conversation # NoConversation /\ (visible \/ ~expired)

\* useWebSocket(wsUrl, options, shouldConnect) keeps a socket exactly when
\* the url is not null and the connect argument is true
Wanted(conversation, visible, expired) ==
    HasUrl(conversation) /\ ShouldConnect(conversation, visible, expired)

\* useWebSocket after a render: it closes the socket when none is wanted,
\* opens a new one when one is newly wanted or the url changed, and
\* otherwise leaves the socket alone
SocketAfter(sock, sameUrl, wasWanted, isWanted) ==
    IF ~isWanted THEN "closed"
    ELSE IF wasWanted /\ sameUrl THEN sock
    ELSE "connecting"

\* useWebSocket resets its attempt count when no socket is wanted
CountAfter(count, isWanted) == IF isWanted THEN count ELSE 0

\* faulty variant: an attempt past the ladder starts the ladder again
ReconnectIntervalWrapping(attempt) == backoffMs[(attempt % Len(backoffMs)) + 1]

\* part_002:265: backoffMs[Math.min(attempt, backoffMs.length - 1)]
ReconnectInterval(attempt) == backoffMs[Min(attempt, Len(backoffMs) - 1) + 1]

(***************************************************************************)
(* The pagination of the maps list (part_001:35-87).                       *)
(***************************************************************************)
\* part_001:40
maxVisible == 5

\* faulty variant: the window around the current page is not cut at the
\* last page
GetVisiblePagesUncut(page, total) ==
    IF total <= maxVisible THEN [i \in 1..total |-> i]
    ELSE LET start == IF page - 2 > 1 THEN page - 2 ELSE 1
             end == page + 2
         IN  [i \in 1..(end - start + 1) |-> start + i - 1]

\* part_001:38-54; the loops push start..end, nothing when end < start
GetVisiblePages(page, total) ==
    IF total <= maxVisible THEN [i \in 1..total |-> i]
    ELSE LET start == IF page - 2 > 1 THEN page - 2 ELSE 1
             end == IF page + 2 < total THEN page + 2 ELSE total
         IN  [i \in 1..(end - start + 1) |-> start + i - 1]

\* renderPagination (part_001:35-36, 56): nothing is rendered for one page
VisiblePages(page, total) ==
    IF total <= 1 THEN <<>> ELSE GetVisiblePages(page, total)

(***************************************************************************)
(* State after construction (part_002:147-152, 224-226, 257).              *)
(***************************************************************************)
ObsStart == [stage |-> "start", fits |-> 0, invalidations |-> 0]

ObsOff == [stage |-> "off", fits |-> 0, invalidations |-> 0]

InitView(visible, conversation) ==
    /\ errors = <<>>
    /\ errorTimers = {}
    /\ activeActions = <<>>
    /\ zoomHistory = <<>>
    /\ zoomHistoryIndex = -1
    /\ mapRef = FALSE
    /\ viewBounds = InitialView
    /\ processedBoundsActionIds = {}
    /\ lastMessage = NoMessage
    /\ effectDue = FALSE
    /\ unhandled = FALSE
    /\ crashed = FALSE
    /\ out = NoOut
    /\ obs = ObsStart
    /\ versionId = NoVersion
    /\ uploadingFiles = <<>>
    /\ transfers = {}
    /\ xhrLoaded = [fileId \in {} |-> 0]
    /\ uploadTimers = {}
    /\ docVisible = visible
    /\ isTabVisible = visible
    /\ hiddenTimeoutExpired = FALSE
    /\ hiddenTimerRef = NoTimer
    /\ hiddenTimers = {}
    /\ hiddenFor = 0
    /\ conversationId = conversation
    /\ socket = SocketAfter("closed", FALSE, FALSE,
                            Wanted(conversation, visible, FALSE))
    /\ reconnectCount = 0
    /\ reconnectDelay = 0
    /\ projectSources = <<>>
    /\ sourcesRefetchInterval = NoPolling
    /\ shownPhases = <<>>
    /\ shownBars = <<>>
    /\ jwt = NoJwt
    /\ jwtLookup = "pending"
    /\ mounted = TRUE
    /\ hiddenLayerIDs = <<>>

\* the project view after construction, beside a maps list of one page
InitState(visible, conversation) ==
    /\ InitView(visible, conversation)
    /\ totalPages = 1
    /\ currentPage = 1
    /\ visiblePages = VisiblePages(1, 1)

\* a page opened in the foreground, with no conversation persisted
Init == InitState(TRUE, NoConversation)

\* a page opened in the foreground or in a background tab, with or without
\* a persisted conversation
InitStream ==
    \E visible \in BOOLEAN, conversation \in ConversationIds \cup {NoConversation} :
        InitState(visible, conversation)

\* no handler runs while an effect is pending or after the view has crashed
Idle == ~crashed /\ ~effectDue

\* the active list is kept within the bound of the model
Room == Len(activeActions) < MaxActive

(***************************************************************************)
(* The map component stores its handle in mapRef (part_002:533).           *)
(***************************************************************************)
MapAttach ==
    /\ Idle /\ ~mapRef
    /\ mapRef' = TRUE
    /\ out' = NoOut
    /\ UNCHANGED <<otherVars, sourceVars, visVars, socketVars,
                   errorVars, zoomVars, streamVars, uploadVars, activeActions,
                   processedBoundsActionIds, obs>>

(***************************************************************************)
(* The map component is torn down (the view is recreated) and its handle   *)
(* is gone until the next MapAttach; the zoom history is state of          *)
(* ProjectView and stays.                                                  *)
(***************************************************************************)
MapDetach ==
    /\ Idle /\ mapRef
    /\ mapRef' = FALSE
    /\ out' = NoOut
    /\ UNCHANGED <<otherVars, sourceVars, visVars, socketVars,
                   errorVars, zoomVars, streamVars, uploadVars, activeActions,
                   processedBoundsActionIds, obs>>

(***************************************************************************)
(* useWebSocket delivers message m as a new lastMessage (part_002:257).    *)
(***************************************************************************)
ObsDeliver(m) ==
    IF obs.stage = "start" /\ mapRef /\ m = ExampleActive
    THEN [obs EXCEPT !.stage = "first"]
    ELSE IF obs.stage = "first" /\ m = ExampleCompleted
    THEN [obs EXCEPT !.stage = "second"]
    ELSE ObsOff

Deliver(m) ==
    /\ Idle
    /\ m.status = "active" => Room
    /\ lastMessage' = m
    /\ unhandled' = TRUE
    /\ effectDue' = DepsChanged(TRUE, zoomHistoryIndex, zoomHistoryIndex)
    /\ out' = NoOut
    /\ obs' = ObsDeliver(m)
    /\ UNCHANGED <<otherVars, sourceVars, visVars, socketVars,
                   errorVars, zoomVars, uploadVars, activeActions, mapRef,
                   processedBoundsActionIds, crashed>>

(***************************************************************************)
(* One run of the message effect and the render that applies its updates   *)
(* (part_002:271-345).                                                     *)
(***************************************************************************)
ObsEffect(r) ==
    IF obs.stage \in {"first", "second"}
    THEN [obs EXCEPT !.fits = @ + Len(r.fits), !.invalidations = @ + r.invalidations]
    ELSE obs

RunMessageEffect ==
    /\ ~crashed /\ effectDue
    /\ lastMessage # NoMessage            \* if (lastMessage)
    /\ \E fitThrows \in FitOutcomes(lastMessage) :
        LET r == Reconcile(lastMessage, fitThrows)
            id == FreshErrorId
        IN  /\ activeActions' = r.active
            /\ zoomHistory' = r.hist
            /\ zoomHistoryIndex' = r.index
            /\ processedBoundsActionIds' = r.processed
            /\ viewBounds' = r.view
            /\ errors' = IF r.error = NoError THEN errors
                         ELSE AddErrorList(errors, r.error, r.override, id)
            /\ errorTimers' = IF r.error = NoError THEN errorTimers
                              ELSE AddErrorTimers(errors, errorTimers, r.error, id)
            /\ out' = [Toasts(IF r.error = NoError
                                 \/ AddErrorToasts(errors, r.error, r.override) = 0
                              THEN <<>> ELSE <<r.error>>)
                       EXCEPT !.fits = r.fits, !.invalidations = r.invalidations]
            /\ crashed' = EscapesEffect(r.thrown)
            /\ effectDue' = DepsChanged(FALSE, zoomHistoryIndex, r.index)
            /\ obs' = ObsEffect(r)
    /\ unhandled' = FALSE
    /\ UNCHANGED <<otherVars, sourceVars, visVars, socketVars,
                   mapRef, lastMessage, uploadVars>>

(***************************************************************************)
(* The zoom navigation buttons (LayerList.tsx:674-730).  A button is       *)
(* clickable unless disabled; fitBounds may throw on a bad entry, and then *)
(* the handler ends before setZoomHistoryIndex.                            *)
(***************************************************************************)
\* faulty variant: the handler does not test mapRef.current
ZoomToWithoutHandle(newIndex) ==
    LET historyItem == zoomHistory[newIndex + 1]
    IN  IF Len(historyItem) = 4
        THEN /\ out' = [NoOut EXCEPT !.fits = <<historyItem>>]
             /\ viewBounds' = historyItem
             /\ zoomHistoryIndex' = newIndex
             /\ effectDue' = DepsChanged(FALSE, zoomHistoryIndex, newIndex)
        ELSE /\ out' = NoOut
             /\ UNCHANGED <<viewBounds, zoomHistoryIndex, effectDue>>

ZoomTo(newIndex) ==
    LET historyItem == zoomHistory[newIndex + 1]
    IN  IF mapRef /\ Len(historyItem) = 4
        THEN \E fitThrows \in FitOutcomes([bounds |-> historyItem]) :
                IF fitThrows
                THEN /\ out' = NoOut
                     /\ UNCHANGED <<viewBounds, zoomHistoryIndex, effectDue>>
                ELSE /\ out' = [NoOut EXCEPT !.fits = <<historyItem>>]
                     /\ viewBounds' = historyItem
                     /\ zoomHistoryIndex' = newIndex
                     /\ effectDue' = DepsChanged(FALSE, zoomHistoryIndex, newIndex)
        ELSE /\ out' = NoOut
             /\ UNCHANGED <<viewBounds, zoomHistoryIndex, effectDue>>

ZoomBack ==
    /\ Idle /\ Room
    /\ zoomHistoryIndex > 0
    /\ ZoomTo(zoomHistoryIndex - 1)
    /\ obs' = ObsOff
    /\ UNCHANGED <<otherVars, sourceVars, visVars, socketVars,
                   errorVars, zoomHistory, lastMessage, unhandled, crashed, uploadVars,
                   activeActions, mapRef, processedBoundsActionIds>>

ZoomForward ==
    /\ Idle /\ Room
    /\ zoomHistoryIndex < Len(zoomHistory) - 1
    /\ ZoomTo(zoomHistoryIndex + 1)
    /\ obs' = ObsOff
    /\ UNCHANGED <<otherVars, sourceVars, visVars, socketVars,
                   errorVars, zoomHistory, lastMessage, unhandled, crashed, uploadVars,
                   activeActions, mapRef, processedBoundsActionIds>>

(***************************************************************************)
(* The error list: addError called by a child component or the dropzone    *)
(* (part_002:477, 539), manual dismissal (part_002:181-183), the passing   *)
(* of time and the auto-dismiss callback (part_002:172-174).               *)
(***************************************************************************)
ErrorMessages == {"M1", "M2"}

AddErrorCall(message, shouldOverrideMessages) ==
    /\ Idle
    /\ Cardinality(errorTimers) < MaxTimers
    /\ LET id == FreshErrorId
       IN  /\ errors' = AddErrorList(errors, message, shouldOverrideMessages, id)
           /\ errorTimers' = AddErrorTimers(errors, errorTimers, message, id)
           /\ out' = Toasts(IF AddErrorToasts(errors, message, shouldOverrideMessages) = 0
                            THEN <<>> ELSE <<message>>)
    /\ UNCHANGED <<otherVars, sourceVars, visVars, socketVars,
                   zoomVars, streamVars, uploadVars, activeActions, mapRef,
                   processedBoundsActionIds, obs>>

DismissError(errorId) ==
    /\ Idle
    /\ errorId \in ErrorIds
    /\ errors' = RemoveError(errors, errorId)
    /\ out' = NoOut
    /\ UNCHANGED <<otherVars, sourceVars, visVars, socketVars,
                   errorTimers, zoomVars, streamVars, uploadVars, activeActions, mapRef,
                   processedBoundsActionIds, obs>>

AllRemaining == {t.remaining : t \in errorTimers \cup uploadTimers \cup hiddenTimers}

MinRemaining == CHOOSE r \in AllRemaining : \A q \in AllRemaining : r <= q

\* time advances by at most d, and never past a timer that is due
TimePasses(d) ==
    /\ Idle
    /\ AllRemaining # {} \/ (~docVisible /\ hiddenFor < MaxHiddenMs)
    /\ \A r \in AllRemaining : r > 0
    /\ LET step == IF AllRemaining = {} THEN d ELSE Min(d, MinRemaining)
       IN  /\ errorTimers' = {[t EXCEPT !.remaining = @ - step] : t \in errorTimers}
           /\ uploadTimers' = {[t EXCEPT !.remaining = @ - step] : t \in uploadTimers}
           /\ hiddenTimers' = {[t EXCEPT !.remaining = @ - step] : t \in hiddenTimers}
           /\ hiddenFor' = IF docVisible THEN hiddenFor
                           ELSE Min(hiddenFor + step, MaxHiddenMs)
           /\ errors' = [i \in 1..Len(errors) |-> [errors[i] EXCEPT !.age = @ + step]]
           /\ uploadingFiles' =
                [i \in 1..Len(uploadingFiles) |->
                    IF uploadingFiles[i].status = "uploading" THEN uploadingFiles[i]
                    ELSE [uploadingFiles[i] EXCEPT !.held = @ + step]]
    /\ out' = NoOut
    /\ UNCHANGED <<otherVars, sourceVars, socketVars, docVisible, isTabVisible, hiddenTimeoutExpired,
                   hiddenTimerRef, zoomVars, streamVars, activeActions, mapRef,
                   processedBoundsActionIds, obs, versionId, transfers, xhrLoaded>>

\* part_002:172-174
ErrorTimerFires(t) ==
    /\ Idle
    /\ t \in errorTimers
    /\ t.remaining = 0
    /\ errors' = RemoveError(errors, t.id)
    /\ errorTimers' = errorTimers \ {t}
    /\ out' = NoOut
    /\ UNCHANGED <<otherVars, sourceVars, visVars, socketVars,
                   zoomVars, streamVars, uploadVars, activeActions, mapRef,
                   processedBoundsActionIds, obs>>

(***************************************************************************)
(* The upload queue (part_002:348-471).  A file is its size in bytes.      *)
(***************************************************************************)
FileSizes == {10 * 1024 * 1024, MaxFileSize, MaxFileSize + 1, 600 * 1024 * 1024}

DropInputs == {<<a>> : a \in FileSizes} \cup {<<a, b>> : a \in FileSizes, b \in FileSizes}

UploadIds == {uploadingFiles[i].id : i \in 1..Len(uploadingFiles)}

UsedUploadIds == UploadIds \cup transfers \cup {t.id : t \in uploadTimers}

\* `${file.name}-${Date.now()}-${random}` (part_002:456): k ids nothing else has
RECURSIVE FreshUploadIds(_, _)
FreshUploadIds(used, k) ==
    IF k = 0 THEN <<>>
    ELSE LET n == CHOOSE x \in 0..Cardinality(used) :
                      x \notin used /\ \A y \in 0..(x - 1) : y \in used
         IN  <<n>> \o FreshUploadIds(used \cup {n}, k - 1)

\* faulty variant: the size filter compares with >=
IsTooLargeInclusive(size) == size >= MaxFileSize

\* part_002:444-450
IsTooLarge(size) == size > MaxFileSize

\* faulty variant: the size toast carries the text of a type rejection
TooLargeTextListingExtensions(size) ==
    "Cannot upload \"a.exe\": Allowed extensions: .geojson, .gpkg, .tif, ..."

\* part_002:446
TooLargeText(size) == "File is too large. Files over 500MB aren't supported yet."

\* part_002:444-450: one toast.error for each file the filter drops
TooLargeToasts(acceptedFiles) ==
    LET tooLarge == SelectSeq(acceptedFiles, IsTooLarge)
    IN  [i \in 1..Len(tooLarge) |-> TooLargeText(tooLarge[i])]

ValidFiles(acceptedFiles) ==
    LET Keep(size) == ~IsTooLarge(size) IN SelectSeq(acceptedFiles, Keep)

\* part_002:455-460
NewUploadingFiles(validFiles) ==
    LET ids == FreshUploadIds(UsedUploadIds, Len(validFiles))
    IN  [i \in 1..Len(validFiles) |->
            [id |-> ids[i], file |-> validFiles[i], progress |-> 0,
             status |-> "uploading", held |-> 0]]

\* the project has loaded and the dropzone is rendered (part_002:95, 490)
LoadVersion(v) ==
    /\ Idle
    /\ versionId = NoVersion
    /\ versionId' = v
    /\ out' = NoOut
    /\ UNCHANGED <<otherVars, sourceVars, visVars, socketVars,
                   errorVars, zoomVars, streamVars, activeActions, mapRef,
                   processedBoundsActionIds, obs, uploadingFiles, transfers,
                   xhrLoaded, uploadTimers>>

\* onDrop (part_002:437-471); the dropzone exists once versionId is set
Drop(acceptedFiles) ==
    /\ Idle
    /\ versionId # NoVersion
    /\ Len(uploadingFiles) + Len(acceptedFiles) <= MaxQueue
    /\ LET validFiles == ValidFiles(acceptedFiles)
           new == NewUploadingFiles(validFiles)
       IN  IF versionId = NoVersion \/ Len(acceptedFiles) = 0
           THEN /\ out' = NoOut
                /\ UNCHANGED <<uploadingFiles, transfers, xhrLoaded>>
           ELSE /\ out' = Toasts(TooLargeToasts(acceptedFiles))
                /\ uploadingFiles' = uploadingFiles \o new
                /\ transfers' = transfers \cup {new[i].id : i \in 1..Len(new)}
                /\ xhrLoaded' = [fileId \in transfers' |->
                                    IF fileId \in transfers THEN xhrLoaded[fileId] ELSE 0]
    /\ UNCHANGED <<otherVars, sourceVars, visVars, socketVars,
                   errorVars, zoomVars, streamVars, activeActions, mapRef,
                   processedBoundsActionIds, obs, versionId, uploadTimers>>

(***************************************************************************)
(* onDropRejected (part_002:475-479): the dropzone hands over the files    *)
(* whose type is not in DROPZONE_ACCEPT (no maxSize is configured, so size *)
(* never rejects here), and each one goes through addError with a message  *)
(* that names the file and joins allowedExtensions.  The updaters run one  *)
(* after the other, each on the list the previous one returned.            *)
(***************************************************************************)
RejectedNames == {"a.exe", "b.exe"}

RejectionInputs == {<<n>> : n \in RejectedNames} \cup (RejectedNames \X RejectedNames)

\* part_002:477
RejectionText(name) ==
    IF name = "a.exe"
    THEN "Cannot upload \"a.exe\": Allowed extensions: .geojson, .gpkg, .tif, ..."
    ELSE "Cannot upload \"b.exe\": Allowed extensions: .geojson, .gpkg, .tif, ..."

\* the texts built from allowedExtensions.join(', ')
ListsExtensions(text) == text \in {RejectionText(n) : n \in RejectedNames}

RECURSIVE AfterRejections(_, _, _)
AfterRejections(prevErrors, timers, names) ==
    IF names = <<>>
    THEN [errors |-> prevErrors, timers |-> timers, notices |-> <<>>]
    ELSE LET message == RejectionText(Head(names))
             used == {prevErrors[i].id : i \in 1..Len(prevErrors)} \cup {t.id : t \in timers}
             id == CHOOSE n \in 0..Cardinality(used) :
                       /\ n \notin used
                       /\ \A k \in 0..(n - 1) : k \in used
             rest == AfterRejections(AddErrorList(prevErrors, message, FALSE, id),
                                     AddErrorTimers(prevErrors, timers, message, id),
                                     Tail(names))
         IN  [rest EXCEPT !.notices =
                 (IF AddErrorToasts(prevErrors, message, FALSE) = 0
                  THEN <<>> ELSE <<message>>) \o @]

DropRejected(fileRejections) ==
    /\ Idle
    /\ Cardinality(errorTimers) + Len(fileRejections) <= MaxTimers
    /\ LET after == AfterRejections(errors, errorTimers, fileRejections)
       IN  /\ errors' = after.errors
           /\ errorTimers' = after.timers
           /\ out' = Toasts(after.notices)
    /\ UNCHANGED <<otherVars, sourceVars, visVars, socketVars,
                   zoomVars, streamVars, uploadVars, activeActions, mapRef,
                   processedBoundsActionIds, obs>>

\* prev.map((f) => (f.id === fileId ? {...f, ...} : f))
SetProgress(prev, fileId, progress) ==
    [i \in 1..Len(prev) |->
        IF prev[i].id = fileId THEN [prev[i] EXCEPT !.progress = progress] ELSE prev[i]]

\* faulty variant: the status is written to every entry
SetStatusOfAll(prev, fileId, status) ==
    [i \in 1..Len(prev) |-> [prev[i] EXCEPT !.status = status]]

SetStatus(prev, fileId, status) ==
    [i \in 1..Len(prev) |->
        IF prev[i].id = fileId THEN [prev[i] EXCEPT !.status = status] ELSE prev[i]]

\* faulty variant: the oldest entry is pruned, whatever its id
RemoveUploadOldest(prev, fileId) ==
    IF prev = <<>> THEN prev ELSE Tail(prev)

\* prev.filter((f) => f.id !== fileId): part_002:406 and part_002:431
RemoveUpload(prev, fileId) ==
    LET Keep(f) == f.id # fileId IN SelectSeq(prev, Keep)

\* faulty variant: the share that is still to be sent
ProgressOfRemaining(loaded, total) ==
    (200 * (total - loaded) + total) \div (2 * total)

\* part_002:361: Math.round((event.loaded / event.total) * 100), and
\* Math.round(x) is floor(x + 1/2)
ProgressOfLoaded(loaded, total) == (200 * loaded + total) \div (2 * total)

\* the progress listener (part_002:359-364) on an event with event.loaded =
\* loaded; the bytes a request has sent never decrease, and an event
\* without a computable length is ignored
UploadProgress(fileId, loaded, lengthComputable) ==
    /\ Idle
    /\ fileId \in transfers
    /\ loaded > xhrLoaded[fileId]
    /\ IF lengthComputable
       THEN /\ xhrLoaded' = [xhrLoaded EXCEPT ![fileId] = loaded]
            /\ uploadingFiles' =
                    SetProgress(uploadingFiles, fileId, ProgressOfLoaded(loaded, Chunks))
       ELSE UNCHANGED <<xhrLoaded, uploadingFiles>>
    /\ out' = NoOut
    /\ UNCHANGED <<otherVars, sourceVars, visVars, socketVars,
                   errorVars, zoomVars, streamVars, activeActions, mapRef,
                   processedBoundsActionIds, obs, versionId, transfers, uploadTimers>>

\* a 2xx response with a parseable body, then onSuccess (part_002:398-423)
UploadSuccess(fileId) ==
    /\ Idle
    /\ fileId \in transfers
    /\ transfers' = transfers \ {fileId}
    /\ xhrLoaded' = [id \in transfers' |-> xhrLoaded[id]]
    /\ uploadingFiles' = SetProgress(SetStatus(uploadingFiles, fileId, "completed"),
                                     fileId, 100)
    /\ uploadTimers' = uploadTimers \cup {[id |-> fileId, remaining |-> SuccessHoldMs]}
    /\ out' = Toasts(<<"Layer uploaded successfully! Navigating to new map...">>)
    /\ UNCHANGED <<otherVars, sourceVars, visVars, socketVars,
                   errorVars, zoomVars, streamVars, activeActions, mapRef,
                   processedBoundsActionIds, obs, versionId>>

\* a non-2xx response or a network error, then onError (part_002:424-433)
UploadError(fileId) ==
    /\ Idle
    /\ fileId \in transfers
    /\ transfers' = transfers \ {fileId}
    /\ xhrLoaded' = [id \in transfers' |-> xhrLoaded[id]]
    /\ uploadingFiles' = SetStatus(uploadingFiles, fileId, "error")
    /\ uploadTimers' = uploadTimers \cup {[id |-> fileId, remaining |-> ErrorHoldMs]}
    /\ out' = Toasts(<<"Error uploading">>)
    /\ UNCHANGED <<otherVars, sourceVars, visVars, socketVars,
                   errorVars, zoomVars, streamVars, activeActions, mapRef,
                   processedBoundsActionIds, obs, versionId>>

\* a 2xx response whose body is not JSON (an empty body, an HTML page):
\* JSON.parse throws inside the load listener (part_002:368-369) before
\* resolve is reached, so the promise stays pending and neither onSuccess
\* nor onError runs
UploadUnparseable(fileId) ==
    /\ Idle
    /\ fileId \in transfers
    /\ transfers' = transfers \ {fileId}
    /\ xhrLoaded' = [id \in transfers' |-> xhrLoaded[id]]
    /\ out' = NoOut
    /\ UNCHANGED <<otherVars, sourceVars, visVars, socketVars,
                   errorVars, zoomVars, streamVars, activeActions, mapRef,
                   processedBoundsActionIds, obs, versionId, uploadingFiles,
                   uploadTimers>>

\* the setTimeout callbacks of onSuccess and onError (part_002:405-407, 430-432)
UploadTimerFires(t) ==
    /\ Idle
    /\ t \in uploadTimers
    /\ t.remaining = 0
    /\ uploadingFiles' = RemoveUpload(uploadingFiles, t.id)
    /\ uploadTimers' = uploadTimers \ {t}
    /\ out' = NoOut
    /\ UNCHANGED <<otherVars, sourceVars, visVars, socketVars,
                   errorVars, zoomVars, streamVars, activeActions, mapRef,
                   processedBoundsActionIds, obs, versionId, transfers, xhrLoaded>>

(***************************************************************************)
(* The conversation, the visibility of the tab and the socket              *)
(* (part_002:81, 222-268).  One visibilitychange event is one action: the  *)
(* document changes its state and the handler runs.                        *)
(***************************************************************************)
\* the render after a handler hands the new url and connect flag to
\* useWebSocket
Rerender(conversation, visible, expired) ==
    LET wasWanted == Wanted(conversationId, isTabVisible, hiddenTimeoutExpired)
        isWanted == Wanted(conversation, visible, expired)
    IN  /\ socket' = SocketAfter(socket,
                                 WsUrl(conversation, jwt) = WsUrl(conversationId, jwt),
                                 wasWanted, isWanted)
        /\ reconnectCount' = CountAfter(reconnectCount, isWanted)
        /\ reconnectDelay' = reconnectDelay

\* setConversationId, handed to the chat panel at part_002:527
SelectConversation(conversation) ==
    /\ Idle
    /\ conversation # conversationId
    /\ conversationId' = conversation
    /\ Rerender(conversation, isTabVisible, hiddenTimeoutExpired)
    /\ out' = NoOut
    /\ UNCHANGED <<otherVars, sourceVars, errorVars, zoomVars, streamVars, uploadVars, visVars,
                   activeActions, mapRef, processedBoundsActionIds, obs>>

\* window.setTimeout returns an id no pending timer has
FreshTimerId ==
    CHOOSE n \in 0..Cardinality(hiddenTimers) :
        /\ n \notin {t.id : t \in hiddenTimers}
        /\ \A k \in 0..(n - 1) : k \in {t.id : t \in hiddenTimers}

\* faulty variant: the pending timer is left running
ClearHiddenTimerNothing(timers, ref) == timers

\* part_002:233-236: clearTimeout(hiddenTimerRef.current) unless it is null
ClearHiddenTimer(timers, ref) ==
    IF ref # NoTimer THEN {t \in timers : t.id # ref} ELSE timers

\* part_002:230-236
BecomeVisible ==
    /\ Idle
    /\ ~docVisible
    /\ docVisible' = TRUE
    /\ isTabVisible' = TRUE
    /\ hiddenTimeoutExpired' = FALSE
    /\ hiddenTimers' = ClearHiddenTimer(hiddenTimers, hiddenTimerRef)
    /\ hiddenTimerRef' = NoTimer
    /\ hiddenFor' = 0
    /\ Rerender(conversationId, TRUE, FALSE)
    /\ out' = NoOut
    /\ UNCHANGED <<otherVars, sourceVars, errorVars, zoomVars, streamVars, uploadVars, conversationId,
                   activeActions, mapRef, processedBoundsActionIds, obs>>

\* part_002:237-243
BecomeHidden ==
    /\ Idle
    /\ docVisible
    /\ Cardinality(hiddenTimers) < MaxTimers
    /\ docVisible' = FALSE
    /\ isTabVisible' = FALSE
    /\ LET id == FreshTimerId
       IN  /\ hiddenTimers' = hiddenTimers
                                \cup {[id |-> id, remaining |-> WsRemainOpenForMs]}
           /\ hiddenTimerRef' = id
    /\ hiddenFor' = 0
    /\ Rerender(conversationId, FALSE, hiddenTimeoutExpired)
    /\ out' = NoOut
    /\ UNCHANGED <<otherVars, sourceVars, errorVars, zoomVars, streamVars, uploadVars, conversationId,
                   hiddenTimeoutExpired, activeActions, mapRef,
                   processedBoundsActionIds, obs>>

\* the callback of part_002:239-242
HiddenTimerFires(t) ==
    /\ Idle
    /\ t \in hiddenTimers
    /\ t.remaining = 0
    /\ hiddenTimeoutExpired' = TRUE
    /\ hiddenTimerRef' = NoTimer
    /\ hiddenTimers' = hiddenTimers \ {t}
    /\ Rerender(conversationId, isTabVisible, TRUE)
    /\ out' = NoOut
    /\ UNCHANGED <<otherVars, sourceVars, errorVars, zoomVars, streamVars, uploadVars, conversationId,
                   docVisible, isTabVisible, hiddenFor, activeActions, mapRef,
                   processedBoundsActionIds, obs>>

\* the socket reaches OPEN; useWebSocket resets its attempt count
SocketOpens ==
    /\ Idle
    /\ socket = "connecting"
    /\ socket' = "open"
    /\ reconnectCount' = 0
    /\ out' = NoOut
    /\ UNCHANGED <<otherVars, sourceVars, errorVars, zoomVars, streamVars, uploadVars, visVars,
                   conversationId, reconnectDelay, activeActions, mapRef,
                   processedBoundsActionIds, obs>>

(***************************************************************************)
(* The controls of the pagination (part_001:61-82).  handlePageChange     *)
(* hands the page to setCurrentPage of the context, and the list renders   *)
(* again.                                                                  *)
(***************************************************************************)
HandlePageChange(page) ==
    /\ currentPage' = page
    /\ visiblePages' = VisiblePages(page, totalPages)
    /\ out' = NoOut
    /\ UNCHANGED <<sourceVars, errorVars, zoomVars, streamVars, uploadVars, visVars,
                   socketVars, tokenVars, hiddenLayerIDs, totalPages,
                   activeActions, mapRef, processedBoundsActionIds, obs>>

\* part_001:63: currentPage > 1 && handlePageChange(currentPage - 1)
PreviousClick ==
    /\ totalPages > 1
    /\ currentPage > 1
    /\ HandlePageChange(currentPage - 1)

\* part_001:78: currentPage < totalPages && handlePageChange(currentPage + 1)
NextClick ==
    /\ totalPages > 1
    /\ currentPage < totalPages
    /\ HandlePageChange(currentPage + 1)

\* part_001:70: the i-th page link
PageLinkClick(i) ==
    /\ i \in 1..Len(visiblePages)
    /\ HandlePageChange(visiblePages[i])

(***************************************************************************)
(* toggleLayerVisibility (part_002:486-488).                               *)
(***************************************************************************)
LayerIds == 1..MaxLayers

Includes(prev, layerId) == \E i \in 1..Len(prev) : prev[i] = layerId

\* faulty variant: the id is appended whether it is hidden or not
ToggledAlwaysAppends(prev, layerId) == Append(prev, layerId)

\* prev.includes(layerId) ? prev.filter((id) => id !== layerId) : [...prev, layerId]
Toggled(prev, layerId) ==
    IF Includes(prev, layerId)
    THEN SelectSeq(prev, LAMBDA id : id # layerId)
    ELSE Append(prev, layerId)

ToggleLayerVisibility(layerId) ==
    /\ Idle
    /\ hiddenLayerIDs' = Toggled(hiddenLayerIDs, layerId)
    /\ out' = NoOut
    /\ UNCHANGED <<sourceVars, errorVars, zoomVars, streamVars, uploadVars, visVars,
                   socketVars, tokenVars, pageVars,
                   activeActions, mapRef, processedBoundsActionIds, obs>>

(***************************************************************************)
(* The token lookup (part_002:211-220).  The effect runs once per mount:   *)
(* getJwt() is called and its promise resolves at some later point; the    *)
(* callback stores the token only when the component is still mounted and  *)
(* the token is truthy.  A stored token changes wsUrl, and useWebSocket    *)
(* drops the socket of the old url and connects to the new one.            *)
(***************************************************************************)
JwtResolves(token) ==
    /\ jwtLookup = "pending"
    /\ mounted => Idle
    /\ jwtLookup' = "settled"
    /\ IF mounted /\ IsToken(token)
       THEN LET wanted == Wanted(conversationId, isTabVisible, hiddenTimeoutExpired)
            IN  /\ jwt' = token
                /\ socket' = SocketAfter(socket,
                                         WsUrl(conversationId, token)
                                             = WsUrl(conversationId, jwt),
                                         wanted, wanted)
       ELSE UNCHANGED <<jwt, socket>>
    /\ out' = NoOut
    /\ UNCHANGED <<sourceVars, errorVars, zoomVars, streamVars, uploadVars, visVars,
                   conversationId, reconnectCount, reconnectDelay, mounted,
                   hiddenLayerIDs, pageVars,
                   activeActions, mapRef, processedBoundsActionIds, obs>>

\* the view is taken off the page: the cleanup of the effect clears the
\* flag (part_002:217-219) and useWebSocket lets go of its socket
Unmount ==
    /\ mounted
    /\ mounted' = FALSE
    /\ socket' = "closed"
    /\ out' = NoOut
    /\ UNCHANGED <<sourceVars, errorVars, zoomVars, streamVars, uploadVars, visVars,
                   conversationId, reconnectCount, reconnectDelay, jwt, jwtLookup,
                   hiddenLayerIDs, pageVars,
                   activeActions, mapRef, processedBoundsActionIds, obs>>

\* the socket closes or fails; shouldReconnect is () => true (part_002:263),
\* so useWebSocket schedules a reconnect after reconnectInterval(count)
\* while the count is below reconnectAttempts, and gives up otherwise
SocketCloses ==
    /\ Idle
    /\ socket \in {"connecting", "open"}
    /\ IF reconnectCount < ReconnectAttempts
       THEN /\ socket' = "waiting"
            /\ reconnectDelay' = ReconnectInterval(reconnectCount)
       ELSE /\ socket' = "stopped"
            /\ reconnectDelay' = reconnectDelay
    /\ out' = Toasts(<<"Chat connection error.">>)        \* part_002:260-262
    /\ UNCHANGED <<otherVars, sourceVars, errorVars, zoomVars, streamVars, uploadVars, visVars,
                   conversationId, reconnectCount, activeActions, mapRef,
                   processedBoundsActionIds, obs>>

\* the reconnect timer of useWebSocket fires: one more attempt
ReconnectFires ==
    /\ Idle
    /\ socket = "waiting"
    /\ socket' = "connecting"
    /\ reconnectCount' = reconnectCount + 1
    /\ out' = NoOut
    /\ UNCHANGED <<otherVars, sourceVars, errorVars, zoomVars, streamVars, uploadVars, visVars,
                   conversationId, reconnectDelay, activeActions, mapRef,
                   processedBoundsActionIds, obs>>

(***************************************************************************)
(* The database connections of the project: the sources query              *)
(* (part_002:61-79) and their rendering (LayerList.tsx:520-623).           *)
(***************************************************************************)
WithoutSource(sources, i) ==
    [k \in 1..(Len(sources) - 1) |-> IF k < i THEN sources[k] ELSE sources[k + 1]]

\* JavaScript truthiness of a string or null
HasText(text) == text # "null" /\ text # ""

\* count ?? 0
OrZero(count) == IF count = NoCount THEN 0 ELSE count

\* faulty variant: the test for 'both counts are 0' is missing
LoadingPhaseWithoutConnecting(connection) ==
    LET processed == OrZero(connection.processed_tables_count)
        total == OrZero(connection.table_count)
    IN  IF processed < total THEN "querying tables" ELSE "summarizing"

\* LayerList.tsx:564-569
LoadingPhase(connection) ==
    LET processed == OrZero(connection.processed_tables_count)
        total == OrZero(connection.table_count)
    IN  IF processed = 0 /\ total = 0 THEN "connecting"
        ELSE IF processed < total THEN "querying tables" ELSE "summarizing"

\* LayerList.tsx:521, 554, 624: the three branches of the list item
Phase(connection) ==
    IF HasText(connection.last_error_text) THEN "error"
    ELSE IF ~connection.is_documented THEN LoadingPhase(connection)
    ELSE "documented"

\* faulty variant: the icon does not test for 'both counts are 0'
ShowsSpinnerWithoutConnecting(connection) ==
    LET processed == OrZero(connection.processed_tables_count)
        total == OrZero(connection.table_count)
    IN  processed >= total

\* LayerList.tsx:558-563: the spinner replaces the database icon
ShowsSpinner(connection) ==
    LET processed == OrZero(connection.processed_tables_count)
        total == OrZero(connection.table_count)
        isSummarizing == ~(processed = 0 /\ total = 0) /\ processed >= total
    IN  isSummarizing

\* Math.min(100, Math.max(0, x))
Clamp(x) == IF x < 0 THEN 0 ELSE IF x > 100 THEN 100 ELSE x

\* LayerList.tsx:599-613: the width of the bar in percent (the whole part
\* of it) and whether it pulses
Bar(connection) ==
    LET processed == OrZero(connection.processed_tables_count)
        total == OrZero(connection.table_count)
        isConnecting == processed = 0 /\ total = 0
        isSummarizing == ~isConnecting /\ processed >= total
        widthPct == IF isConnecting THEN 0
                    ELSE IF total > 0 THEN Clamp((processed * 100) \div total)
                    ELSE 0
    IN  [width |-> IF isSummarizing THEN 100 ELSE widthPct, pulses |-> isSummarizing]

\* what an item that is neither in error nor documented shows next to its
\* label; the other items have no spinner and no bar
NoIndicators == [spinner |-> FALSE, width |-> -1, pulses |-> FALSE]

Indicators(connection) ==
    IF Phase(connection) \in {"error", "documented"} THEN NoIndicators
    ELSE [spinner |-> ShowsSpinner(connection),
          width |-> Bar(connection).width,
          pulses |-> Bar(connection).pulses]

\* faulty variant: a connection in error still counts as loading
HasLoadingConnectionsIgnoringErrors(sources) ==
    \E i \in 1..Len(sources) : ~sources[i].is_documented

\* part_002:77
HasLoadingConnections(sources) ==
    \E i \in 1..Len(sources) :
        ~sources[i].is_documented /\ ~HasText(sources[i].last_error_text)

\* a fetch of the sources endpoint returns: connection i is new or has
\* changed; the list is rendered and the effect at part_002:75-79 runs
SourcesFetched(i, connection) ==
    /\ Idle
    /\ i \in 1..Min(Len(projectSources) + 1, MaxSources)
    /\ LET sources == IF i <= Len(projectSources)
                      THEN [projectSources EXCEPT ![i] = connection]
                      ELSE Append(projectSources, connection)
       IN  /\ projectSources' = sources
           /\ shownPhases' = [k \in 1..Len(sources) |-> Phase(sources[k])]
           /\ shownBars' = [k \in 1..Len(sources) |-> Indicators(sources[k])]
           /\ sourcesRefetchInterval' =
                    IF HasLoadingConnections(sources) THEN SourcesPollMs ELSE NoPolling
    /\ out' = NoOut
    /\ UNCHANGED <<otherVars, errorVars, zoomVars, streamVars, uploadVars, visVars, socketVars,
                   activeActions, mapRef, processedBoundsActionIds, obs>>

\* deleteConnectionMutation (LayerList.tsx:179-201) succeeds and the
\* sources are fetched again
SourceDeleted(i) ==
    /\ Idle
    /\ i \in 1..Len(projectSources)
    /\ LET sources == WithoutSource(projectSources, i)
       IN  /\ projectSources' = sources
           /\ shownPhases' = [k \in 1..Len(sources) |-> Phase(sources[k])]
           /\ shownBars' = [k \in 1..Len(sources) |-> Indicators(sources[k])]
           /\ sourcesRefetchInterval' =
                    IF HasLoadingConnections(sources) THEN SourcesPollMs ELSE NoPolling
    /\ out' = Toasts(<<"Database connection deleted successfully">>)
    /\ UNCHANGED <<otherVars, errorVars, zoomVars, streamVars, uploadVars, visVars, socketVars,
                   activeActions, mapRef, processedBoundsActionIds, obs>>

(***************************************************************************)
(* Specifications.  Spec is the reconciler: the map handle, the event      *)
(* stream, the message effect and the zoom buttons; no time passes in it,  *)
(* so an error entry stays live.  SpecErrors is the error list with its    *)
(* timers, SpecUpload the upload queue with its timers, SpecNav the zoom   *)
(* buttons with a map handle that comes and goes, SpecStream and           *)
(* SpecReconnect the connection of the event stream, SpecSources the       *)
(* database connections.                                                   *)
(***************************************************************************)
Next ==
    \/ MapAttach
    \/ \E m \in Messages : Deliver(m)
    \/ RunMessageEffect
    \/ ZoomBack
    \/ ZoomForward

Spec == Init /\ [][Next]_vars

NextErrors ==
    \/ \E message \in ErrorMessages, o \in BOOLEAN : AddErrorCall(message, o)
    \/ \E errorId \in ErrorIds : DismissError(errorId)
    \/ TimePasses(TickMs)
    \/ \E t \in errorTimers : ErrorTimerFires(t)

SpecErrors == Init /\ [][NextErrors]_vars

\* zoom navigation: zoom events fill the history, the buttons walk it, and
\* the map handle comes and goes
NavMessages ==
    {Eph(a, "active", b, NoError, "absent") :
        a \in ActionIds \cup {ThirdAction}, b \in {B1, B2, NonFiniteBounds}}
    \cup {Eph(a, "completed", NoBounds, NoError, "plain") :
            a \in ActionIds \cup {ThirdAction}}

NextNav ==
    \/ MapAttach
    \/ MapDetach
    \/ \E m \in NavMessages : Deliver(m)
    \/ RunMessageEffect
    \/ ZoomBack
    \/ ZoomForward

SpecNav == Init /\ [][NextNav]_vars

NextUpload ==
    \/ \E v \in {1} : LoadVersion(v)
    \/ \E files \in DropInputs : Drop(files)
    \/ \E fileId \in transfers, loaded \in 1..Chunks, lengthComputable \in BOOLEAN :
            UploadProgress(fileId, loaded, lengthComputable)
    \/ \E fileId \in transfers : UploadSuccess(fileId)
    \/ \E fileId \in transfers : UploadError(fileId)
    \/ \E fileId \in transfers : UploadUnparseable(fileId)
    \/ TimePasses(TickMs)
    \/ \E t \in uploadTimers : UploadTimerFires(t)

SpecUpload == Init /\ [][NextUpload]_vars

\* the connection of the event stream: conversation, visibility, the grace
\* timer and the clock
\* the dropzone: what it accepts goes to onDrop, what it rejects to
\* onDropRejected; the uploads settle, and an error entry can be dismissed
(***************************************************************************)
(* The upload queue to its end: every transfer ends in one of its          *)
(* outcomes, time passes and the timers fire.  The browser ends every      *)
(* request and runs every due timer, hence the weak fairness.              *)
(***************************************************************************)
TransferEnds(fileId) ==
    \/ UploadSuccess(fileId)
    \/ UploadError(fileId)
    \/ UploadUnparseable(fileId)

NextOutcomes ==
    \/ \E v \in {1} : LoadVersion(v)
    \/ \E files \in DropInputs : Drop(files)
    \/ \E fileId \in transfers : UploadSuccess(fileId)
    \/ \E fileId \in transfers : UploadError(fileId)
    \/ \E fileId \in transfers : UploadUnparseable(fileId)
    \/ TimePasses(TickMs)
    \/ \E t \in uploadTimers : UploadTimerFires(t)

SpecOutcomes ==
    /\ Init
    /\ [][NextOutcomes]_vars
    /\ \A fileId \in 0..MaxQueue : WF_vars(TransferEnds(fileId))
    /\ WF_vars(TimePasses(TickMs))
    /\ WF_vars(\E t \in uploadTimers : UploadTimerFires(t))

(***************************************************************************)
(* The maps list: the context hands over some totalPages and a current    *)
(* page within it, and the three kinds of control are clicked.             *)
(***************************************************************************)
InitPages ==
    /\ InitView(TRUE, NoConversation)
    /\ totalPages \in 1..MaxPages
    /\ currentPage \in 1..totalPages
    /\ visiblePages = VisiblePages(currentPage, totalPages)

NextPages ==
    \/ PreviousClick
    \/ NextClick
    \/ \E i \in 1..maxVisible : PageLinkClick(i)

SpecPages == InitPages /\ [][NextPages]_vars

\* the layer list: the eye button of a layer is clicked
NextLayers == \E layerId \in LayerIds : ToggleLayerVisibility(layerId)

SpecLayers == Init /\ [][NextLayers]_vars

NextDropzone ==
    \/ \E v \in {1} : LoadVersion(v)
    \/ \E acceptedFiles \in DropInputs : Drop(acceptedFiles)
    \/ \E fileRejections \in RejectionInputs : DropRejected(fileRejections)
    \/ \E fileId \in transfers : UploadSuccess(fileId)
    \/ \E fileId \in transfers : UploadError(fileId)
    \/ \E errorId \in ErrorIds : DismissError(errorId)

SpecDropzone == Init /\ [][NextDropzone]_vars

NextStream ==
    \/ \E conversation \in ConversationIds \cup {NoConversation} :
            SelectConversation(conversation)
    \/ BecomeVisible
    \/ BecomeHidden
    \/ TimePasses(TickMs)
    \/ \E t \in hiddenTimers : HiddenTimerFires(t)
    \/ SocketOpens

SpecStream == InitStream /\ [][NextStream]_vars

\* the reconnect policy: a socket that keeps failing
\* the stream url: conversations are selected, the tab is hidden and shown,
\* sockets open, the token lookup resolves, and the view can be unmounted
InitToken ==
    \E conversation \in ConversationIds \cup {NoConversation} :
        InitState(TRUE, conversation)

NextToken ==
    \/ mounted /\ \E conversation \in ConversationIds \cup {NoConversation} :
                      SelectConversation(conversation)
    \/ mounted /\ SocketOpens
    \/ mounted /\ BecomeHidden
    \/ mounted /\ BecomeVisible
    \/ mounted /\ TimePasses(TickMs)
    \/ mounted /\ \E t \in hiddenTimers : HiddenTimerFires(t)
    \/ \E token \in JwtResults : JwtResolves(token)
    \/ Unmount

SpecToken == InitToken /\ [][NextToken]_vars

NextReconnect ==
    \/ \E conversation \in ConversationIds \cup {NoConversation} :
            SelectConversation(conversation)
    \/ SocketOpens
    \/ SocketCloses
    \/ ReconnectFires

SpecReconnect == Init /\ [][NextReconnect]_vars

\* the database connections as the server reports them
NextSources ==
    \/ \E i \in 1..MaxSources, connection \in Connections : SourcesFetched(i, connection)
    \/ \E i \in 1..MaxSources : SourceDeleted(i)

SpecSources == Init /\ [][NextSources]_vars

(***************************************************************************)
(* Claims about the reconciler, checked under Spec.                        *)
(***************************************************************************)
\* a step of the message effect: nothing else runs while an effect is due
EffectStep == effectDue /\ ~crashed

\* the message is an ephemeral event without error_message
PlainEvent(m) == m.kind = "ephemeral" /\ m.error_message = NoError

\* an array of exactly 4 finite numbers
ValidBounds(b) == Len(b) = 4 /\ \A i \in 1..Len(b) : b[i] \in NumberTokens

\* the effect step took the zoom branch: it recorded the action id
Pushed == processedBoundsActionIds' # processedBoundsActionIds

\* C1: from the empty state with a map handle, the active event of a1 with
\* bounds [0,0,10,10] followed by the completed event of a1 with style_json
\* gives exactly one zoom command, exactly one invalidation of the map
\* document and an empty active-actions list.
C1_ExampleRun ==
    /\ (obs.stage = "first" /\ ~effectDue) =>
            (obs.fits = 1 /\ obs.invalidations = 0 /\ activeActions = <<1>>)
    /\ (obs.stage = "second" /\ ~effectDue) =>
            (obs.fits = 1 /\ obs.invalidations = 1 /\ activeActions = <<>>)

C1_Witness == obs.stage = "second" /\ ~effectDue /\ viewBounds = B1

\* C2 (as claimed): the active-actions list never holds two entries with the
\* same action_id, whatever the order of active and completed events.
C2_NoDuplicateIds ==
    \A i, j \in 1..Len(activeActions) : i # j => activeActions[i] # activeActions[j]

\* C3: an active event with valid bounds whose action_id has already zoomed,
\* processed with a map handle, changes neither the zoom history nor its
\* index and issues no zoom command.
C3_SecondZoomIgnored ==
    [][(/\ EffectStep
        /\ PlainEvent(lastMessage)
        /\ lastMessage.status = "active"
        /\ ValidBounds(lastMessage.bounds)
        /\ mapRef
        /\ lastMessage.action_id \in processedBoundsActionIds)
       => (/\ zoomHistory' = zoomHistory
           /\ zoomHistoryIndex' = zoomHistoryIndex
           /\ viewBounds' = viewBounds
           /\ out'.fits = <<>>)]_vars

\* the second event of action 1 carried B2, and B2 was never pushed
C3_Witness ==
    /\ lastMessage = Eph(1, "active", B2, NoError, "absent")
    /\ ~effectDue /\ ~unhandled /\ mapRef
    /\ 1 \in processedBoundsActionIds
    /\ zoomHistory = <<InitialView, B1>>
    /\ zoomHistoryIndex = 1

\* C4 (as claimed): a push while the index is not at the tail discards the
\* entries after the index and appends the one new entry, so that
\* [A,B,C] with index 0 becomes [A,D] with index 1.
C4_PushAppendsOne ==
    [][(Pushed /\ zoomHistoryIndex < Len(zoomHistory) - 1)
       => (/\ zoomHistory' = SubSeq(zoomHistory, 1, zoomHistoryIndex + 1)
                                \o <<lastMessage.bounds>>
           /\ zoomHistoryIndex' = zoomHistoryIndex + 1)]_vars

\* C4 (amended): a push while the index is not at the tail keeps the entries
\* up to the index, discards every later one and appends two entries, the
\* view bounds before the zoom and the target: [A,B,C] with index 0 and view
\* V becomes [A,V,D] with index 2.
C4_PushTruncates ==
    [][(Pushed /\ zoomHistoryIndex < Len(zoomHistory) - 1)
       => (/\ Len(zoomHistory') = zoomHistoryIndex + 3
           /\ \A i \in 1..(zoomHistoryIndex + 1) : zoomHistory'[i] = zoomHistory[i]
           /\ zoomHistory'[zoomHistoryIndex + 2] = viewBounds
           /\ zoomHistory'[zoomHistoryIndex + 3] = lastMessage.bounds
           /\ zoomHistoryIndex' = zoomHistoryIndex + 2)]_vars

\* three pushes left three entries: the third push found [A,B,C] or more with
\* the index at 0
C4_Witness ==
    /\ processedBoundsActionIds = {1, 2, ThirdAction}
    /\ lastMessage.action_id = ThirdAction
    /\ Len(zoomHistory) = 3
    /\ zoomHistoryIndex = 2
    /\ zoomHistory[3] = B2

IsMalformed(m) == m.kind = "malformed"

\* a completed event without an 'updates' object
LacksUpdates(m) == PlainEvent(m) /\ m.status = "completed" /\ m.updates = "absent"

ReconcilerUntouched ==
    /\ activeActions' = activeActions
    /\ zoomHistory' = zoomHistory
    /\ zoomHistoryIndex' = zoomHistoryIndex
    /\ processedBoundsActionIds' = processedBoundsActionIds

\* C8 (as claimed): a bad message is caught, surfaces the generic entry, and
\* leaves the reconciler as if it had not arrived.
C8_AsIfNotArrived ==
    [][(EffectStep /\ (IsMalformed(lastMessage) \/ LacksUpdates(lastMessage)))
       => (/\ ~crashed'
           /\ HasMessage(errors', GenericError)
           /\ ReconcilerUntouched)]_vars

\* C8 (amended): a bad message never stops the reconciler: it is caught and
\* the generic entry is live afterwards; malformed JSON changes nothing
\* else, a completed event without 'updates' has still removed its action
\* from the active list, and an active event whose zoom command throws has
\* still pushed its two history entries but is not added to the list.
C8_CaughtAndSurfaced ==
    [][/\ (EffectStep /\ IsMalformed(lastMessage)) =>
            (/\ ~crashed' /\ HasMessage(errors', GenericError)
             /\ ReconcilerUntouched)
       /\ (EffectStep /\ LacksUpdates(lastMessage)) =>
            (/\ ~crashed' /\ HasMessage(errors', GenericError)
             /\ \A i \in 1..Len(activeActions') :
                    activeActions'[i] # lastMessage.action_id
             /\ Len(activeActions') <= Len(activeActions)
             /\ zoomHistory' = zoomHistory
             /\ zoomHistoryIndex' = zoomHistoryIndex)
       /\ (EffectStep /\ Pushed /\ out'.fits = <<>>) =>
            (/\ ~crashed' /\ HasMessage(errors', GenericError)
             /\ activeActions' = activeActions
             /\ Len(zoomHistory') = zoomHistoryIndex + 3)
       /\ ~crashed']_vars

\* after a bad message a chat message was processed
C8_Witness ==
    /\ HasMessage(errors, GenericError)
    /\ lastMessage = Chat
    /\ ~effectDue /\ ~unhandled /\ ~crashed
    /\ out.invalidations = 1

\* C9: an ephemeral event with an error_message, whatever its status and
\* bounds, appends one entry flagged shouldOverrideMessages (none when the
\* message is live) and changes nothing else: no zoom, no invalidation.
C9_ErrorEventOnly ==
    [][(EffectStep /\ lastMessage.kind = "ephemeral"
            /\ lastMessage.error_message # NoError)
       => (/\ ReconcilerUntouched
           /\ viewBounds' = viewBounds
           /\ out'.fits = <<>>
           /\ out'.invalidations = 0
           /\ IF HasMessage(errors, lastMessage.error_message)
              THEN errors' = errors
              ELSE /\ Len(errors') = Len(errors) + 1
                   /\ SubSeq(errors', 1, Len(errors)) = errors
                   /\ errors'[Len(errors')].message = lastMessage.error_message
                   /\ errors'[Len(errors')].shouldOverrideMessages)]_vars

\* an active error event with bounds was processed with a map handle
C9_Witness ==
    /\ lastMessage = Eph(1, "active", B1, "E1", "absent")
    /\ ~effectDue /\ ~unhandled /\ mapRef
    /\ zoomHistory = <<>>
    /\ activeActions = <<>>
    /\ \E i \in 1..Len(errors) :
           errors[i].message = "E1" /\ errors[i].shouldOverrideMessages

\* C10 (as claimed): an active event zooms exactly when it has valid bounds,
\* a map handle is available and its id has not zoomed before; the zoom
\* pushes the view bounds and the target, advances the index by 2 and
\* issues one zoom command; bounds that are not 4 finite numbers never push
\* or zoom.
C10_ZoomExactlyWhenValid ==
    [][(EffectStep /\ PlainEvent(lastMessage) /\ lastMessage.status = "active")
       => LET eligible == /\ ValidBounds(lastMessage.bounds)
                          /\ mapRef
                          /\ lastMessage.action_id \notin processedBoundsActionIds
          IN  /\ eligible =>
                    (/\ zoomHistory' = SubSeq(zoomHistory, 1, zoomHistoryIndex + 1)
                                          \o <<viewBounds, lastMessage.bounds>>
                     /\ zoomHistoryIndex' = zoomHistoryIndex + 2
                     /\ out'.fits = <<lastMessage.bounds>>)
              /\ ~eligible =>
                    (/\ zoomHistory' = zoomHistory
                     /\ zoomHistoryIndex' = zoomHistoryIndex
                     /\ out'.fits = <<>>)]_vars

\* C11: a completed event without error_message removes every entry of the
\* active list with its action_id and keeps the other entries in their
\* order; it invalidates the map document if and only if its updates hold
\* a style_json.
C11_CompletedRemovesAndInvalidates ==
    [][(/\ EffectStep
        /\ lastMessage.kind = "ephemeral"
        /\ lastMessage.error_message = NoError
        /\ lastMessage.status = "completed")
       => (/\ LET Other(a) == a # lastMessage.action_id
              IN  activeActions' = SelectSeq(activeActions, Other)
           /\ out'.invalidations = (IF lastMessage.updates = "style" THEN 1 ELSE 0)
           /\ zoomHistory' = zoomHistory
           /\ zoomHistoryIndex' = zoomHistoryIndex
           /\ out'.fits = <<>>)]_vars

\* both actions have zoomed; the completed event of action 2 with a
\* style_json was processed and action 1 is still in the list
C11_Witness ==
    /\ lastMessage = Eph(2, "completed", NoBounds, NoError, "style")
    /\ ~effectDue /\ ~unhandled
    /\ activeActions = <<1>>
    /\ out.invalidations = 1
    /\ processedBoundsActionIds = {1, 2}

\* the effect step did what the chat branch does: one invalidation, and
\* nothing of the reconciler or of the error list changed
ChatTreatment ==
    /\ out'.invalidations = 1
    /\ out'.fits = <<>>
    /\ ReconcilerUntouched
    /\ viewBounds' = viewBounds
    /\ errors' = errors
    /\ errorTimers' = errorTimers

\* the effect step invalidated only the way the ephemeral branch does, for
\* a completed event with a style_json
EphemeralTreatment ==
    out'.invalidations = 1 =>
        (lastMessage.status = "completed" /\ lastMessage.updates = "style")

\* C12 (as claimed): a well-formed message without an 'ephemeral' field, or
\* with a non-truthy one, invalidates the map document exactly once and
\* changes none of the active list, the zoom history, its index and the
\* error list; a message with a truthy 'ephemeral' field is never treated as
\* a chat message.
C12_TruthyIsEphemeral ==
    [][(EffectStep /\ lastMessage.kind # "malformed")
       => (/\ lastMessage.ephemeral \in {"absent", "false"} => ChatTreatment
           /\ lastMessage.ephemeral \in {"true", "1"} => EphemeralTreatment)]_vars

\* C12 (amended): a well-formed message is an ephemeral action exactly when
\* its 'ephemeral' field is the boolean true; every other well-formed
\* message, one with a truthy field that is not true (ephemeral: 1)
\* included, invalidates the map document exactly once and changes none of
\* the active list, the zoom history, its index and the error list.
C12_OnlyTrueIsEphemeral ==
    [][(EffectStep /\ lastMessage.kind # "malformed")
       => (/\ lastMessage.ephemeral # "true" => ChatTreatment
           /\ lastMessage.ephemeral = "true" => EphemeralTreatment)]_vars

\* an object with ephemeral: 1 and status 'active' was processed while
\* action 2 was active: one invalidation, and the list was not extended
C12_Witness ==
    /\ lastMessage = NumericMarker
    /\ ~effectDue /\ ~unhandled
    /\ out.invalidations = 1
    /\ activeActions = <<2>>
    /\ errors = <<>>

(***************************************************************************)
(* Claims about zoom navigation, checked under SpecNav.                    *)
(***************************************************************************)
\* the step moved the index or the view, or issued a zoom command
NavMoved ==
    \/ zoomHistoryIndex' # zoomHistoryIndex
    \/ viewBounds' # viewBounds
    \/ out'.fits # <<>>

\* the step set the index to newIndex and re-applied the bounds stored there
NavApplied(newIndex) ==
    /\ zoomHistoryIndex' = newIndex
    /\ viewBounds' = zoomHistory[newIndex + 1]
    /\ out'.fits = <<zoomHistory[newIndex + 1]>>
    /\ zoomHistory' = zoomHistory

\* C13: back changes state only when index > 0 and a map handle is
\* available, and then sets the index to index-1 and re-applies the bounds
\* stored there; forward only when index < length-1 and a handle is
\* available, and then sets index+1 and re-applies; neither alters the
\* history entries; the index moves down in no other way, and moves up in
\* no other way except by a zoom push.
C13_Navigation ==
    [][/\ ZoomBack =>
            /\ zoomHistory' = zoomHistory
            /\ NavMoved => (/\ zoomHistoryIndex > 0 /\ mapRef
                            /\ NavApplied(zoomHistoryIndex - 1))
            /\ ~mapRef => ~NavMoved
            /\ (mapRef /\ ValidBounds(zoomHistory[zoomHistoryIndex])) =>
                    NavApplied(zoomHistoryIndex - 1)
       /\ ZoomForward =>
            /\ zoomHistory' = zoomHistory
            /\ NavMoved => (/\ zoomHistoryIndex < Len(zoomHistory) - 1 /\ mapRef
                            /\ NavApplied(zoomHistoryIndex + 1))
            /\ ~mapRef => ~NavMoved
            /\ (mapRef /\ ValidBounds(zoomHistory[zoomHistoryIndex + 2])) =>
                    NavApplied(zoomHistoryIndex + 1)
       /\ zoomHistoryIndex' < zoomHistoryIndex =>
            (/\ zoomHistoryIndex > 0 /\ mapRef
             /\ NavApplied(zoomHistoryIndex - 1))
       /\ (zoomHistoryIndex' > zoomHistoryIndex /\ ~Pushed) =>
            (/\ zoomHistoryIndex < Len(zoomHistory) - 1 /\ mapRef
             /\ NavApplied(zoomHistoryIndex + 1))]_vars

\* back, back, forward over a history of four entries: the index is at the
\* third entry and its bounds were re-applied
C13_Witness ==
    /\ Len(zoomHistory) = 4
    /\ zoomHistoryIndex = 2
    /\ out.fits = <<zoomHistory[3]>>
    /\ viewBounds = zoomHistory[3]
    /\ mapRef

(***************************************************************************)
(* Claims about the connection of the event stream, checked under          *)
(* SpecStream and SpecReconnect.                                           *)
(***************************************************************************)
Connected == socket \in {"connecting", "open", "waiting"}

\* the grace timer of the current hidden period is due and has not run yet
GraceTimerDue == \E t \in hiddenTimers : t.remaining = 0

\* C14 (as claimed): the stream is connected only while a conversation id
\* is set and the tab is visible or has been hidden for less than 10
\* minutes; with a null conversation id, or once the tab has been hidden
\* for 10 minutes without a break, the stream is disconnected.
C14_ConnectedOnlyWhenAllowed ==
    /\ Connected =>
            (/\ conversationId # NoConversation
             /\ \/ docVisible
                \/ hiddenFor < 10 * 60 * 1000
                \/ GraceTimerDue)
    /\ conversationId = NoConversation => ~Connected
    /\ (~docVisible /\ hiddenFor >= 10 * 60 * 1000 /\ ~GraceTimerDue) => ~Connected

\* what holds of the above: it holds from the first visibilitychange event
\* on, and so for every page that was visible when it loaded
C14_WhenLoadedVisible ==
    (docVisible \/ hiddenTimerRef # NoTimer \/ hiddenTimeoutExpired)
        => C14_ConnectedOnlyWhenAllowed

\* C16: the expired flag is never true while the tab is visible; no grace
\* timer is pending while the tab is visible, so none fires after the tab
\* became visible again; and a pending timer is the one the current hidden
\* period started, due exactly 10 minutes after the tab was hidden.
C16_TimerClearedOnVisible ==
    /\ [](isTabVisible = docVisible)
    /\ [](docVisible => (~hiddenTimeoutExpired /\ hiddenTimers = {}
                            /\ hiddenTimerRef = NoTimer))
    /\ [](\A t \in hiddenTimers :
            /\ t.id = hiddenTimerRef
            /\ t.remaining = 10 * 60 * 1000 - hiddenFor)
    /\ [][(hiddenTimeoutExpired' /\ ~hiddenTimeoutExpired)
            => (~docVisible /\ hiddenFor = 10 * 60 * 1000)]_vars
    /\ [][(docVisible' /\ ~docVisible)
            => (~hiddenTimeoutExpired' /\ hiddenTimers' = {})]_vars

\* the tab has been hidden for two ticks: the flag is down, the one pending
\* timer is the one of this hidden period, and the stream is still wanted
C16_Witness ==
    /\ ~docVisible
    /\ ~hiddenTimeoutExpired
    /\ hiddenFor = 2 * TickMs
    /\ Cardinality(hiddenTimers) = 1
    /\ socket = "connecting"
    /\ conversationId = 1

C5_DedupedAndExpiring ==
    /\ [](\A i, j \in 1..Len(errors) :
            i # j => errors[i].message # errors[j].message)
    /\ [](\A i \in 1..Len(errors) :
            /\ errors[i].age <= ErrorDismissMs
            /\ \E t \in errorTimers :
                    t.id = errors[i].id /\ t.remaining = ErrorDismissMs - errors[i].age)
    /\ [][\A message \in ErrorMessages, o \in BOOLEAN :
            (AddErrorCall(message, o) /\ HasMessage(errors, message))
                => (errors' = errors /\ errorTimers' = errorTimers)]_vars
    /\ [][\A i \in 1..Len(errors) :
            (\A j \in 1..Len(errors') : errors'[j].id # errors[i].id)
                => (errors[i].age = ErrorDismissMs \/ DismissError(errors[i].id))]_vars

\* two messages are live and the older entry has reached 30 seconds
C5_Witness ==
    /\ Len(errors) = 2
    /\ errors[1].age = ErrorDismissMs
    /\ errors[2].age < ErrorDismissMs

(***************************************************************************)
(* Claims about the upload queue, checked under SpecUpload.                *)
(***************************************************************************)
Oversize(files) == {i \in 1..Len(files) : files[i] > 500 * 1024 * 1024}

\* C6: on a drop, a file above 500MB never enters the queue and never
\* starts a transfer, and gives exactly one notification; every other file
\* of the drop enters the queue with progress 0 and status 'uploading'.
C6_DropFiltersOversize ==
    /\ [](\A i \in 1..Len(uploadingFiles) :
            uploadingFiles[i].file <= 500 * 1024 * 1024)
    /\ [](transfers \subseteq UploadIds)
    /\ [][\A files \in DropInputs : Drop(files) =>
            LET old == Len(uploadingFiles)
                accepted == Len(files) - Cardinality(Oversize(files))
                kept == {i \in 1..Len(files) : i \notin Oversize(files)}
            IN  /\ out'.toasts = Cardinality(Oversize(files))
                /\ Len(uploadingFiles') = old + accepted
                /\ SubSeq(uploadingFiles', 1, old) = uploadingFiles
                /\ \A k \in (old + 1)..Len(uploadingFiles') :
                        /\ uploadingFiles'[k].progress = 0
                        /\ uploadingFiles'[k].status = "uploading"
                        /\ uploadingFiles'[k].id \in transfers' \ transfers
                /\ \A i \in kept :
                        uploadingFiles'[old + Cardinality({j \in kept : j <= i})].file
                            = files[i]
                /\ Cardinality(transfers') = Cardinality(transfers) + accepted]_vars

\* a drop of one file above 500MB and one file below it
C6_Witness ==
    /\ out.toasts = 1
    /\ Len(uploadingFiles) = 1
    /\ uploadingFiles[1].progress = 0
    /\ uploadingFiles[1].status = "uploading"
    /\ uploadingFiles[1].file = MaxFileSize
    /\ uploadingFiles[1].id \in transfers

\* the queue without its i-th entry
WithoutEntry(queue, i) ==
    [j \in 1..(Len(queue) - 1) |-> IF j < i THEN queue[j] ELSE queue[j + 1]]

\* the entry with this id is in the queue before the step and not after it
Pruned(i) ==
    \A j \in 1..Len(uploadingFiles') : uploadingFiles'[j].id # uploadingFiles[i].id

\* C17: a completed entry is held for 2 seconds and an error entry for 5
\* seconds; an entry leaves the queue only when it has been held that long,
\* and the step that removes it removes that entry and no other.
C17_HeldThenPruned ==
    /\ [](\A i \in 1..Len(uploadingFiles) :
            LET f == uploadingFiles[i]
                hold == IF f.status = "completed" THEN 2000 ELSE 5000
            IN  f.status # "uploading" =>
                    /\ f.held <= hold
                    /\ \E t \in uploadTimers :
                            t.id = f.id /\ t.remaining = hold - f.held)
    /\ [][\A i \in 1..Len(uploadingFiles) :
            Pruned(i) =>
                /\ uploadingFiles[i].status = "completed" => uploadingFiles[i].held = 2000
                /\ uploadingFiles[i].status = "error" => uploadingFiles[i].held = 5000
                /\ uploadingFiles[i].status # "uploading"
                /\ uploadingFiles' = WithoutEntry(uploadingFiles, i)]_vars

\* two files failed and completed in the same instant; 2 seconds later the
\* completed entry is gone and the error entry is still held
C17_Witness ==
    /\ Len(uploadingFiles) = 1
    /\ uploadingFiles[1].status = "error"
    /\ uploadingFiles[1].held = 2000
    /\ uploadTimers = {[id |-> uploadingFiles[1].id, remaining |-> 3000]}

\* C18: the progress of every file in the queue is within 0..100, is 100
\* when the status is 'completed', and never decreases while the file is
\* in the queue.
C18_ProgressMonotone ==
    /\ [](\A i \in 1..Len(uploadingFiles) :
            /\ uploadingFiles[i].progress \in 0..100
            /\ uploadingFiles[i].status = "completed" =>
                    uploadingFiles[i].progress = 100)
    /\ [][\A i \in 1..Len(uploadingFiles), j \in 1..Len(uploadingFiles') :
            uploadingFiles[i].id = uploadingFiles'[j].id =>
                uploadingFiles'[j].progress >= uploadingFiles[i].progress]_vars

\* one file went from 0 to 100 and completed while another is part-way
C18_Witness ==
    /\ Len(uploadingFiles) = 2
    /\ uploadingFiles[1].status = "completed"
    /\ uploadingFiles[1].progress = 100
    /\ uploadingFiles[2].status = "uploading"
    /\ uploadingFiles[2].progress \in 1..99
    /\ xhrLoaded[uploadingFiles[2].id] > 0

\* the step turned the i-th entry from 'uploading' to 'error'
Failed(i) ==
    /\ i <= Len(uploadingFiles')
    /\ uploadingFiles'[i].id = uploadingFiles[i].id
    /\ uploadingFiles[i].status = "uploading"
    /\ uploadingFiles'[i].status = "error"

\* C19: the failure of one upload changes the status of its entry and
\* nothing else: every other entry, every other request in flight and
\* every pending prune stay as they are; and a drop with a file above
\* 500MB leaves the entries of the queue alone and queues and starts every
\* other file of the drop.
C19_FailureIsLocal ==
    [][/\ \A i \in 1..Len(uploadingFiles) :
            Failed(i) =>
                /\ Len(uploadingFiles') = Len(uploadingFiles)
                /\ \A j \in 1..Len(uploadingFiles) :
                        j # i => uploadingFiles'[j] = uploadingFiles[j]
                /\ uploadingFiles'[i].id = uploadingFiles[i].id
                /\ uploadingFiles'[i].progress = uploadingFiles[i].progress
                /\ transfers' = transfers \ {uploadingFiles[i].id}
                /\ \A id \in transfers' : xhrLoaded'[id] = xhrLoaded[id]
                /\ uploadTimers \subseteq uploadTimers'
                /\ \A t \in uploadTimers' \ uploadTimers : t.id = uploadingFiles[i].id
       /\ \A files \in DropInputs :
            (Drop(files) /\ Oversize(files) # {}) =>
                /\ SubSeq(uploadingFiles', 1, Len(uploadingFiles)) = uploadingFiles
                /\ Len(uploadingFiles') = Len(uploadingFiles) + Len(files)
                                                - Cardinality(Oversize(files))
                /\ \A k \in (Len(uploadingFiles) + 1)..Len(uploadingFiles') :
                        uploadingFiles'[k].id \in transfers' \ transfers
                /\ transfers \subseteq transfers'
                /\ \A id \in transfers : xhrLoaded'[id] = xhrLoaded[id]
                /\ uploadTimers' = uploadTimers]_vars

\* the first file failed 5 seconds ago; the second has just completed
C19_Witness ==
    /\ Len(uploadingFiles) = 2
    /\ uploadingFiles[1].status = "error"
    /\ uploadingFiles[1].held = 5000
    /\ uploadingFiles[2].status = "completed"
    /\ uploadingFiles[2].held = 0

(***************************************************************************)
(* Claims about the database connections, checked under SpecSources.       *)
(***************************************************************************)
\* C20: the phase shown for a connection is a function of last_error_text,
\* is_documented and the two counts alone: 'error' if there is an error
\* text; otherwise 'documented' if is_documented; otherwise, with a missing
\* count read as 0, 'connecting' if both counts are 0, 'querying tables'
\* if processed < total, and 'summarizing' in every other case.
C20_PhaseOfConnection ==
    /\ Len(shownPhases) = Len(projectSources)
    /\ \A i \in 1..Len(projectSources) :
        LET c == projectSources[i]
            processed == IF c.processed_tables_count = -1 THEN 0
                         ELSE c.processed_tables_count
            total == IF c.table_count = -1 THEN 0 ELSE c.table_count
        IN  shownPhases[i] =
                (CASE c.last_error_text \notin {"null", ""} -> "error"
                   [] c.last_error_text \in {"null", ""} /\ c.is_documented
                        -> "documented"
                   [] OTHER ->
                        IF processed = 0 /\ total = 0 THEN "connecting"
                        ELSE IF processed < total THEN "querying tables"
                        ELSE "summarizing")

\* a connection with 2 tables processed and no table_count is shown as
\* summarizing, and the sources are polled
C20_Witness ==
    /\ Len(projectSources) = 1
    /\ projectSources[1].last_error_text = "null"
    /\ ~projectSources[1].is_documented
    /\ projectSources[1].processed_tables_count = 2
    /\ projectSources[1].table_count = NoCount
    /\ shownPhases = <<"summarizing">>
    /\ sourcesRefetchInterval = 500

(***************************************************************************)
(* C21 as stated: each file a drop turns away for exceeding 500MB produces *)
(* one notification, and that notification lists the permitted file        *)
(* extensions.                                                             *)
(***************************************************************************)
C21_OversizeListsExtensions ==
    [][\A files \in DropInputs :
          Drop(files)
              => /\ Len(out'.notices) = Cardinality(Oversize(files))
                 /\ \A i \in 1..Len(out'.notices) : ListsExtensions(out'.notices[i])]_vars

(***************************************************************************)
(* C21 amended: each file a drop turns away for exceeding 500MB produces   *)
(* one notification, which does not list the permitted extensions and      *)
(* adds no entry to the error list; the notifications that list the        *)
(* permitted extensions are the ones for the files the dropzone rejects,   *)
(* one error entry per distinct message, and they leave the queue alone.   *)
(***************************************************************************)
C21_OversizeNamesLimit ==
    [][/\ \A files \in DropInputs :
            Drop(files)
                => /\ Len(out'.notices) = Cardinality(Oversize(files))
                   /\ \A i \in 1..Len(out'.notices) : ~ListsExtensions(out'.notices[i])
                   /\ errors' = errors
       /\ \A fileRejections \in RejectionInputs :
            DropRejected(fileRejections)
                => /\ \A i \in 1..Len(out'.notices) : ListsExtensions(out'.notices[i])
                   /\ Len(out'.notices) = Len(errors') - Len(errors)
                   /\ \A i \in 1..Len(fileRejections) :
                         \E k \in 1..Len(errors') :
                             errors'[k].message = RejectionText(fileRejections[i])
                   /\ uploadingFiles' = uploadingFiles]_vars

\* a drop has just turned away two oversize files while an error entry of a
\* rejected file is on show
C21_Witness ==
    /\ Len(out.notices) = 2
    /\ \A i \in 1..2 : ~ListsExtensions(out.notices[i])
    /\ \E k \in 1..Len(errors) : ListsExtensions(errors[k].message)

\* the url handed to useWebSocket in this state
CurrentUrl == WsUrl(conversationId, jwt)

(***************************************************************************)
(* C22: with a conversation selected, the stream url carries no token      *)
(* until the token lookup resolves with a token while the view is mounted, *)
(* and from then on it carries that token for good; storing the token      *)
(* changes the url and starts a new connection instead of keeping the open *)
(* one; a lookup that resolves with no token, or after the unmount,        *)
(* changes neither the url nor the socket.                                 *)
(***************************************************************************)
C22_TokenUpgradesUrl ==
    [][/\ HasUrl(conversationId)
          => CurrentUrl.token = (IF jwtLookup = "settled" /\ IsToken(jwt)
                                 THEN jwt ELSE NoJwt)
       /\ jwtLookup = "pending" => jwt = NoJwt
       /\ IsToken(jwt) => jwt' = jwt
       /\ jwt' # jwt
          => /\ mounted /\ jwtLookup = "pending" /\ jwtLookup' = "settled"
             /\ IsToken(jwt')
             /\ HasUrl(conversationId)
                => /\ CurrentUrl' # CurrentUrl
                   /\ CurrentUrl'.conversation = CurrentUrl.conversation
                   /\ isTabVisible => socket' = "connecting"
       /\ \A token \in JwtResults :
             JwtResolves(token) /\ (~IsToken(token) \/ ~mounted)
                 => CurrentUrl' = CurrentUrl /\ socket' = socket /\ jwt' = jwt]_vars

\* the token has arrived while the socket of the bare url was open, and the
\* socket of the new url is being connected
C22_Witness ==
    /\ mounted
    /\ HasUrl(conversationId)
    /\ CurrentUrl.token = "jwt1"
    /\ socket = "connecting"
    /\ jwtLookup = "settled"

\* some connection of the list is neither documented nor in error
SomeStillLoading(sources) ==
    \E i \in 1..Len(sources) :
        /\ sources[i].is_documented = FALSE
        /\ sources[i].last_error_text \in {"null", ""}

C24_AppliedOnce ==
    [][(EffectStep /\ ~unhandled)
          => /\ activeActions' = activeActions
             /\ out'.invalidations = 0]_vars

(***************************************************************************)
(* C25: whatever the interleaving of zoom pushes and back/forward clicks,  *)
(* the zoom-history index lies in -1..length-1, it is -1 exactly when the  *)
(* history is empty, and right after a push it points at the last entry,   *)
(* which holds the target bounds of the event.                             *)
(***************************************************************************)
C25_IndexInRange ==
    /\ zoomHistoryIndex = -1 /\ zoomHistory = <<>>
    /\ [][/\ -1 <= zoomHistoryIndex' /\ zoomHistoryIndex' <= Len(zoomHistory') - 1
          /\ (zoomHistoryIndex' = -1) <=> (Len(zoomHistory') = 0)
          /\ Pushed => /\ zoomHistoryIndex' = Len(zoomHistory') - 1
                       /\ zoomHistory'[Len(zoomHistory')] = lastMessage.bounds]_vars

\* a push made after a click on 'Previous location': the entry ahead of the
\* index was dropped and the index points at the new last entry
C25_Witness ==
    /\ Len(zoomHistory) = 3
    /\ zoomHistoryIndex = 2
    /\ Cardinality(processedBoundsActionIds) = 2
    /\ zoomHistory[3] = lastMessage.bounds

\* the list without the entries of the given id, the others in their order
OthersKept(list, id) ==
    LET keep == {i \in 1..Len(list) : list[i].id # id}
        nth(n) == CHOOSE i \in keep : Cardinality({k \in keep : k < i}) = n - 1
    IN  [n \in 1..Cardinality(keep) |-> list[nth(n)]]

(***************************************************************************)
(* C26: no two entries share an id; the auto-dismiss timer of an entry     *)
(* removes the entry of its own id and no other, so the timer of an entry  *)
(* that was dismissed by hand changes nothing when it fires, even when the *)
(* same message is on show again; dismissError(id) removes exactly the     *)
(* entry of that id.                                                       *)
(***************************************************************************)
C26_TimerRemovesOwnEntry ==
    /\ [](\A i, j \in 1..Len(errors) : i # j => errors[i].id # errors[j].id)
    /\ [][\A t \in errorTimers :
            (t.remaining = 0 /\ errorTimers' = errorTimers \ {t})
                => /\ errors' = OthersKept(errors, t.id)
                   /\ (\A i \in 1..Len(errors) : errors[i].id # t.id) => errors' = errors]_vars
    /\ [][\A errorId \in 0..(MaxTimers + 1) :
            DismissError(errorId)
                => /\ errors' = OthersKept(errors, errorId)
                   /\ Len(errors') = Len(errors) - 1]_vars

\* the first entry was dismissed by hand and M1 was added 20 seconds later:
\* the timer of the first entry is due while the later entry is on show
C26_Witness ==
    /\ Len(errors) = 1
    /\ errors[1].message = "M1"
    /\ errors[1].age = TickMs
    /\ errors[1].id = 1
    /\ \E t \in errorTimers : t.id = 0 /\ t.remaining = 0

(***************************************************************************)
(* C27 (as claimed): every file that is in the upload queue leaves it in   *)
(* the end, whatever the outcome of its transfer.                          *)
(***************************************************************************)
C27_EveryFileLeaves ==
    \A fileId \in 0..MaxQueue :
        (fileId \in UploadIds) ~> (fileId \notin UploadIds)

(***************************************************************************)
(* C28: for every connection that is neither documented nor in error,      *)
(* whatever its counts (missing, zero, processed above the total), the     *)
(* icon, the label and the bar agree: the spinner shows exactly when the   *)
(* label is 'Summarizing...', the bar is at 100% and the bar pulses        *)
(* exactly then, the bar is at 0% under 'Connecting...', and its width is  *)
(* within 0..100.                                                          *)
(***************************************************************************)
C28_IndicatorsAgree ==
    /\ Len(shownBars) = Len(projectSources)
    /\ \A i \in 1..Len(projectSources) :
         (/\ projectSources[i].is_documented = FALSE
          /\ projectSources[i].last_error_text \in {"null", ""})
            => /\ shownBars[i].spinner <=> (shownPhases[i] = "summarizing")
               /\ (shownBars[i].width = 100) <=> (shownPhases[i] = "summarizing")
               /\ shownBars[i].pulses <=> (shownPhases[i] = "summarizing")
               /\ shownPhases[i] = "connecting" => shownBars[i].width = 0
               /\ 0 <= shownBars[i].width /\ shownBars[i].width <= 100

\* processed is above the total: the label says 'Summarizing...', the
\* spinner turns and the bar is full and pulsing
C28_Witness ==
    /\ Len(projectSources) = 1
    /\ projectSources[1].processed_tables_count = 3
    /\ projectSources[1].table_count = 2
    /\ shownPhases = <<"summarizing">>
    /\ shownBars = <<[spinner |-> TRUE, width |-> 100, pulses |-> TRUE]>>

(***************************************************************************)
(* C29: with more than one page and the current page within                *)
(* 1..totalPages, the page links are consecutive numbers within            *)
(* 1..totalPages, at most 5 of them, and the current page is among them;   *)
(* Previous and Next move the current page by one and never out of         *)
(* 1..totalPages.                                                          *)
(***************************************************************************)
C29_PagesInRange ==
    /\ [](totalPages > 1
            => /\ Len(visiblePages) <= 5
               /\ \A i \in 1..Len(visiblePages) :
                     /\ 1 <= visiblePages[i] /\ visiblePages[i] <= totalPages
                     /\ i > 1 => visiblePages[i] = visiblePages[i - 1] + 1
               /\ \E i \in 1..Len(visiblePages) : visiblePages[i] = currentPage)
    /\ [](1 <= currentPage /\ currentPage <= totalPages)
    /\ [][(PreviousClick => currentPage' = currentPage - 1)
          /\ (NextClick => currentPage' = currentPage + 1)]_vars

\* the last of more than 5 pages: the links end at the current page
C29_Witness ==
    /\ totalPages = 7
    /\ currentPage = 7
    /\ visiblePages = <<5, 6, 7>>

\* the ids of a list
IdsOf(list) == {list[i] : i \in 1..Len(list)}

\* the list without the given id, the others in their order
WithoutId(list, layerId) == SelectSeq(list, LAMBDA id : id # layerId)

\* the step is a toggle of layerId: it flips whether layerId is in the list,
\* keeps the other ids in their order, and the list holds no id twice
FlipsOnly(layerId) ==
    /\ (layerId \in IdsOf(hiddenLayerIDs')) <=> (layerId \notin IdsOf(hiddenLayerIDs))
    /\ WithoutId(hiddenLayerIDs', layerId) = WithoutId(hiddenLayerIDs, layerId)
    /\ \A i, j \in 1..Len(hiddenLayerIDs') :
            i # j => hiddenLayerIDs'[i] # hiddenLayerIDs'[j]

(***************************************************************************)
(* C30 as stated: a toggle flips whether the id is in the hidden-layer     *)
(* list and leaves the other ids as they were and in their order, the list *)
(* never holds an id twice, and two toggles of the same id in a row give   *)
(* back the original list.                                                 *)
(***************************************************************************)
C30_TwiceRestoresList ==
    /\ [][\A layerId \in LayerIds : ToggleLayerVisibility(layerId) => FlipsOnly(layerId)]_vars
    /\ [](\A layerId \in LayerIds :
            Toggled(Toggled(hiddenLayerIDs, layerId), layerId) = hiddenLayerIDs)

(***************************************************************************)
(* C30 amended: a toggle flips whether the id is in the hidden-layer list  *)
(* and leaves the other ids as they were and in their order, the list      *)
(* never holds an id twice, and two toggles of the same id in a row give   *)
(* back a list of the same ids with the other ids in their order: the      *)
(* original list when the id was not hidden or was the last entry, and     *)
(* otherwise the list with the id moved to the end.                        *)
(***************************************************************************)
C30_TwiceRestoresIds ==
    /\ [][\A layerId \in LayerIds : ToggleLayerVisibility(layerId) => FlipsOnly(layerId)]_vars
    /\ [](\A layerId \in LayerIds :
            LET twice == Toggled(Toggled(hiddenLayerIDs, layerId), layerId)
            IN  /\ IdsOf(twice) = IdsOf(hiddenLayerIDs)
                /\ WithoutId(twice, layerId) = WithoutId(hiddenLayerIDs, layerId)
                /\ layerId \notin IdsOf(hiddenLayerIDs) => twice = hiddenLayerIDs
                /\ layerId \in IdsOf(hiddenLayerIDs)
                    => twice = Append(WithoutId(hiddenLayerIDs, layerId), layerId))

\* layer 1 was hidden before layer 2, then shown and hidden again: it is
\* now behind layer 2
C30_Witness ==
    /\ hiddenLayerIDs = <<2, 1>>
    /\ Toggled(Toggled(<<1, 2>>, 1), 1) = hiddenLayerIDs

================================================================================
